---- MODULE Spec2Model ----
(***************************************************************************)
(* A model of the fixture generators of gldf-rs:                           *)
(*   scripts/astral_sky_demo.py  (star catalogue, horizon transform,       *)
(*                                sky product document and archive)        *)
(*   scripts/enrich_aec_gldf.py  (shared-base and per-CCT product          *)
(*                                documents and archives)                  *)
(*                                                                         *)
(* Representation.  Python floats are fixed-point integers in thousandths  *)
(* (Milli); a float NaN is the value NaN.  Python str values are sequences *)
(* of one-character strings while the code looks inside them, and TLA+     *)
(* strings once they are only concatenated and compared (XML ids, archive  *)
(* entry names).  An Optional value is a record [some, v].                 *)
(***************************************************************************)
EXTENDS Integers, Sequences, FiniteSets, TLC

VARIABLES
    catalogue,   \* the data/hygdata_v42.csv resource: [exists, header, rows]
    loads,       \* the get_stars calls made so far: <<[mag_limit, outcome, stars]>>
    clock,       \* the wall clock, read only by datetime.now()
    firstCall,   \* an earlier calculate_alt_az call: [some, inp, out, at]
    lastCall,    \* the latest calculate_alt_az call:  [some, inp, out, at]
    script,      \* which script runs: "sky" or "aec"
    pc,          \* the script's position
    skyIn,       \* the arguments of generate_gldf_for_sky
    skyOut,      \* what generate_gldf_for_sky built: [doc, archive, ...]
    inArchive,   \* the input archive tests/data/aec_ga15.gldf: [exists, entries]
    outFiles,    \* the two output archives, by generator: [exists, entries]
    aecOut       \* the generator calls made so far: <<[fn, outcome, ret, at]>>

catVars == <<catalogue, loads>>
azVars  == <<firstCall, lastCall>>
skyVars == <<skyIn, skyOut>>
aecVars == <<inArchive, outFiles, aecOut>>
vars == <<catalogue, loads, clock, firstCall, lastCall, script, pc,
          skyIn, skyOut, inArchive, outFiles, aecOut>>

(***************************************************************************)
(* Bounds of the model.                                                    *)
(***************************************************************************)
MaxRows  == 2      \* rows in a catalogue file
MaxCalls == 2      \* get_stars calls in one run
MaxClock == 2      \* wall-clock ticks

(***************************************************************************)
(* Floats.                                                                 *)
(***************************************************************************)
Milli == 1000
NaN   == 999999999

FloatGT(a, b) == a # NaN /\ b # NaN /\ a > b
FloatLE(a, b) == a # NaN /\ b # NaN /\ a <= b
FloatLT(a, b) == a # NaN /\ b # NaN /\ a < b
FloatGE(a, b) == a # NaN /\ b # NaN /\ a >= b

\* a * k for a float a and an exact factor k (NaN stays NaN)
FloatTimes(a, k) == IF a = NaN THEN NaN ELSE a * k

None    == [some |-> FALSE, v |-> 0]
Some(x) == [some |-> TRUE, v |-> x]

(***************************************************************************)
(* Text: str values as sequences of characters.                            *)
(***************************************************************************)
Digits == <<"0", "1", "2", "3", "4", "5", "6", "7", "8", "9">>

IsDigit(c) == \E i \in 1..10 : Digits[i] = c

DigitVal(c) == (CHOOSE i \in 1..10 : Digits[i] = c) - 1

AllDigits(s) == \A i \in 1..Len(s) : IsDigit(s[i])

RECURSIVE DigitsVal(_)
DigitsVal(s) ==
    IF s = <<>> THEN 0
    ELSE 10 * DigitsVal(SubSeq(s, 1, Len(s) - 1)) + DigitVal(s[Len(s)])

\* str(n) for an integer n
RECURSIVE NatStr(_)
NatStr(n) == IF n < 10 THEN <<Digits[n + 1]>>
             ELSE NatStr(n \div 10) \o <<Digits[(n % 10) + 1]>>

IntStr(n) == IF n < 0 THEN <<"-">> \o NatStr(-n) ELSE NatStr(n)

\* the TLA+ string spelled by a sequence of characters
RECURSIVE Join(_)
Join(s) == IF s = <<>> THEN "" ELSE Head(s) \o Join(Tail(s))

\* a str or None, as csv.DictReader hands a field over (None: the row is
\* shorter than the header)
Txt(s)   == [present |-> TRUE, s |-> s]
NoneTxt  == [present |-> FALSE, s |-> <<>>]

Ok(v)       == [tag |-> "ok", v |-> v]
Raise(kind) == [tag |-> kind, v |-> 0]

Pow10(k) == IF k = 0 THEN 1 ELSE IF k = 1 THEN 10 ELSE IF k = 2 THEN 100 ELSE 1000

\* the position of the first "." of s, or 0
DotAt(s) == IF \E i \in 1..Len(s) : s[i] = "."
            THEN CHOOSE i \in 1..Len(s) : s[i] = "." /\ \A j \in 1..(i - 1) : s[j] # "."
            ELSE 0

\* float(x) for the decimal literals [-]digits[.digits] and "nan"; any other
\* str raises ValueError and None raises TypeError.  The value keeps three
\* decimals.
ParseUnsigned(s) ==
    LET d    == DotAt(s)
        ip   == IF d = 0 THEN s ELSE SubSeq(s, 1, d - 1)
        fp   == IF d = 0 THEN <<>> ELSE SubSeq(s, d + 1, Len(s))
        fp3  == IF Len(fp) > 3 THEN SubSeq(fp, 1, 3) ELSE fp
    IN  IF AllDigits(ip) /\ AllDigits(fp) /\ Len(ip) + Len(fp) > 0
        THEN Ok(DigitsVal(ip) * Milli + DigitsVal(fp3) * Pow10(3 - Len(fp3)))
        ELSE Raise("ValueError")

ParseFloat(x) ==
    IF ~x.present THEN Raise("TypeError")
    ELSE IF x.s = <<"n", "a", "n">> THEN Ok(NaN)
    ELSE IF x.s # <<>> /\ Head(x.s) = "-"
         THEN LET r == ParseUnsigned(Tail(x.s))
              IN  IF r.tag = "ok" THEN Ok(-r.v) ELSE r
    ELSE ParseUnsigned(x.s)

\* int(x) for the literals [-]digits; any other str raises ValueError
ParseInt(x) ==
    IF ~x.present THEN Raise("TypeError")
    ELSE LET neg  == x.s # <<>> /\ Head(x.s) = "-"
             body == IF neg THEN Tail(x.s) ELSE x.s
         IN  IF body # <<>> /\ AllDigits(body)
             THEN Ok(IF neg THEN -DigitsVal(body) ELSE DigitsVal(body))
             ELSE Raise("ValueError")

(***************************************************************************)
(* Star (astral_sky_demo.py, class Star) and the catalogue loader.         *)
(***************************************************************************)
Star(name, hip_id, ra, dec, mag, spectral_type, color_index) ==
    [name |-> name, hip_id |-> hip_id, ra |-> ra, dec |-> dec, mag |-> mag,
     spectral_type |-> spectral_type, color_index |-> color_index]

\* (name, ra, dec, mag, spectral type, B-V), floats in thousandths
BRIGHT_STARS == <<
    <<<<"S", "i", "r", "i", "u", "s">>, 101287, -16716, -1460, <<"A", "1", "V">>, 0>>,
    <<<<"C", "a", "n", "o", "p", "u", "s">>, 95988, -52696, -740, <<"F", "0", "I", "b">>, 150>>,
    <<<<"A", "r", "c", "t", "u", "r", "u", "s">>, 213915, 19182, -50, <<"K", "1", ".", "5", "I", "I", "I">>, 1230>>,
    <<<<"V", "e", "g", "a">>, 279235, 38784, 30, <<"A", "0", "V">>, 0>>,
    <<<<"C", "a", "p", "e", "l", "l", "a">>, 79172, 45998, 80, <<"G", "5", "I", "I", "I">>, 800>>,
    <<<<"R", "i", "g", "e", "l">>, 78634, -8202, 130, <<"B", "8", "I", "a">>, -30>>,
    <<<<"P", "r", "o", "c", "y", "o", "n">>, 114825, 5225, 340, <<"F", "5", "I", "V", "-", "V">>, 420>>,
    <<<<"B", "e", "t", "e", "l", "g", "e", "u", "s", "e">>, 88793, 7407, 420, <<"M", "1", "I", "a">>, 1850>>,
    <<<<"A", "l", "t", "a", "i", "r">>, 297696, 8868, 770, <<"A", "7", "V">>, 220>>,
    <<<<"A", "l", "d", "e", "b", "a", "r", "a", "n">>, 68980, 16509, 850, <<"K", "5", "I", "I", "I">>, 1540>>,
    <<<<"A", "n", "t", "a", "r", "e", "s">>, 247352, -26432, 960, <<"M", "1", "I", "b">>, 1830>>,
    <<<<"S", "p", "i", "c", "a">>, 201298, -11161, 970, <<"B", "1", "V">>, -230>>,
    <<<<"P", "o", "l", "l", "u", "x">>, 116329, 28026, 1140, <<"K", "0", "I", "I", "I">>, 1000>>,
    <<<<"D", "e", "n", "e", "b">>, 310358, 45280, 1250, <<"A", "2", "I", "a">>, 90>>,
    <<<<"P", "o", "l", "a", "r", "i", "s">>, 37954, 89264, 2020, <<"F", "7", "I", "b">>, 600>>
>>

get_fallback_stars ==
    [i \in 1..Len(BRIGHT_STARS) |->
        LET t == BRIGHT_STARS[i]
        IN  Star(t[1], None, t[2], t[3], t[4], Txt(t[5]), Some(t[6]))]

\* row.get(key, '')
RowGet(row, key) == IF key \in DOMAIN row THEN row[key] ELSE Txt(<<>>)

\* the truth value of a str or None
Truthy(x) == x.present /\ x.s # <<>>

\* float(row[key])
FloatField(row, key) ==
    IF key \in DOMAIN row THEN ParseFloat(row[key]) ELSE Raise("KeyError")

\* f"{x}" for a str or None
FormatTxt(x) == IF x.present THEN x.s ELSE <<"N", "o", "n", "e">>

\* row.get('proper', '') or f"HIP {hip_id}" if hip_id else f"HYG {row['id']}"
\* (the conditional expression binds weaker than `or`)
RowName(row, hip_id) ==
    IF hip_id.some /\ hip_id.v # 0
    THEN Ok(IF Truthy(RowGet(row, "proper"))
            THEN RowGet(row, "proper").s
            ELSE <<"H", "I", "P", " ">> \o IntStr(hip_id.v))
    ELSE IF "id" \in DOMAIN row
         THEN Ok(<<"H", "Y", "G", " ">> \o FormatTxt(row["id"]))
         ELSE Raise("KeyError")

Skip        == [tag |-> "skip"]
Abort(kind) == [tag |-> kind]
Keep(star)  == [tag |-> "append", star |-> star]

\* ValueError and KeyError are caught (the row is skipped); anything else
\* leaves the loop
Caught(r) == IF r.tag \in {"ValueError", "KeyError"} THEN Skip ELSE Abort(r.tag)

\* the body of the `for row in reader` loop
ProcessRow(row, mag_limit) ==
    LET mag == FloatField(row, "mag")
        ci  == RowGet(row, "ci")
        color_index == IF Truthy(ci) THEN ParseFloat(ci) ELSE Ok(0)
        hip == RowGet(row, "hip")
        hip_r == IF Truthy(hip) THEN ParseInt(hip) ELSE Ok(0)
        hip_id == IF Truthy(hip) THEN Some(hip_r.v) ELSE None
        name == RowName(row, hip_id)
        ra  == FloatField(row, "ra")
        dec == FloatField(row, "dec")
    IN  IF mag.tag # "ok" THEN Caught(mag)
        ELSE IF FloatGT(mag.v, mag_limit) THEN Skip
        ELSE IF color_index.tag # "ok" THEN Caught(color_index)
        ELSE IF hip_r.tag # "ok" THEN Caught(hip_r)
        ELSE IF name.tag # "ok" THEN Caught(name)
        ELSE IF ra.tag # "ok" THEN Caught(ra)
        ELSE IF dec.tag # "ok" THEN Caught(dec)
        ELSE Keep(Star(name.v, hip_id, FloatTimes(ra.v, 15), dec.v, mag.v,
                       RowGet(row, "spect"),
                       IF Truthy(ci) THEN Some(color_index.v) ELSE None))

Returned(stars) == [outcome |-> "returned", stars |-> stars]
Raised(kind)    == [outcome |-> kind, stars |-> <<>>]

RECURSIVE LoadRows(_, _, _)
LoadRows(rows, mag_limit, stars) ==
    IF rows = <<>> THEN Returned(stars)
    ELSE LET r == ProcessRow(Head(rows), mag_limit)
         IN  IF r.tag = "skip" THEN LoadRows(Tail(rows), mag_limit, stars)
             ELSE IF r.tag = "append"
                  THEN LoadRows(Tail(rows), mag_limit, Append(stars, r.star))
             ELSE Raised(r.tag)

\* a loader whose substitute list honours the magnitude ceiling
load_hyg_catalogue_ceiling(cat, mag_limit) ==
    IF cat.exists THEN LoadRows(cat.rows, mag_limit, <<>>)
    ELSE Returned(SelectSeq(get_fallback_stars,
                            LAMBDA star : FloatLE(star.mag, mag_limit)))

load_hyg_catalogue(cat, mag_limit) ==
    IF cat.exists THEN LoadRows(cat.rows, mag_limit, <<>>)
    ELSE Returned(get_fallback_stars)

get_stars(cat, mag_limit) == load_hyg_catalogue(cat, mag_limit)

(***************************************************************************)
(* Catalogue files the loader is run on.  A row is what csv.DictReader      *)
(* yields: a str per column of the header, None for the columns a short    *)
(* row does not reach.                                                     *)
(***************************************************************************)
Columns == <<"id", "hip", "proper", "ra", "dec", "mag", "spect", "ci">>

ColumnSet == {Columns[i] : i \in 1..Len(Columns)}

BaseRow ==
    [id     |-> Txt(<<"7">>),
     hip    |-> Txt(<<"3">>),
     proper |-> Txt(<<"V", "e", "g", "a">>),
     ra     |-> Txt(<<"6", ".", "5">>),
     dec    |-> Txt(<<"1", "0">>),
     mag    |-> Txt(<<"1", ".", "0">>),
     spect  |-> Txt(<<"A", "0">>),
     ci     |-> Txt(<<"0", ".", "5">>)]

MagTexts  == {<<"3", ".", "5">>, <<"n", "a", "n">>, <<"x">>, <<>>}
RaTexts   == {<<"2", "4">>, <<"x">>}
DecTexts  == {<<"9", "5">>, <<"-", "9", "0">>}
CiTexts   == {<<>>, <<"x">>}
HipTexts  == {<<>>, <<"0">>, <<"7", ".", "5">>}

\* the row that ends after its first k fields
ShortRow(k) ==
    [c \in ColumnSet |->
        IF \E i \in 1..k : Columns[i] = c THEN BaseRow[c] ELSE NoneTxt]

FullRows ==
    {BaseRow}
    \cup {[BaseRow EXCEPT !["mag"] = Txt(t)] : t \in MagTexts}
    \cup {[BaseRow EXCEPT !["ra"] = Txt(t)] : t \in RaTexts}
    \cup {[BaseRow EXCEPT !["dec"] = Txt(t)] : t \in DecTexts}
    \cup {[BaseRow EXCEPT !["ci"] = Txt(t)] : t \in CiTexts}
    \cup {[BaseRow EXCEPT !["hip"] = Txt(t)] : t \in HipTexts}
    \cup {[BaseRow EXCEPT !["proper"] = Txt(<<>>)]}
    \cup {[BaseRow EXCEPT !["mag"] = Txt(<<"3", ".", "5">>), !["ra"] = NoneTxt]}
    \cup {ShortRow(1), ShortRow(5), ShortRow(6)}

Headers == {ColumnSet, ColumnSet \ {"id"}}

RowsOver(header) == {[c \in header |-> r[c]] : r \in FullRows}

SeqsUpTo(S, n) == UNION {[1..k -> S] : k \in 0..n}

NoCatalogue == [exists |-> FALSE, rows |-> <<>>]

Catalogues ==
    {NoCatalogue}
    \cup {[exists |-> TRUE, rows |-> rs] :
            rs \in UNION {SeqsUpTo(RowsOver(h), MaxRows) : h \in Headers}}

\* magnitude ceilings, in thousandths: 0.0, 2.0, 6.5
MagLimits == {0, 2000, 6500}

(***************************************************************************)
(* The horizon transform (calculate_alt_az, approximate branch).           *)
(*                                                                         *)
(* binary64 arithmetic is modelled at a precision of one thousandth:       *)
(* math.sin and math.cos of an angle are read from a table of whole        *)
(* degrees, sums and products are rounded to the thousandth, and           *)
(* math.asin / math.acos return whole degrees.  Two properties of the      *)
(* binary64 library that decide whether the code divides by zero or takes  *)
(* a branch are kept: math.cos(math.radians(90.0)) is 6.1e-17, positive    *)
(* and not zero (here: one thousandth), and math.sin(math.radians(180.0))  *)
(* is 1.2e-16, positive.  The product in the divisor of cos_az is kept     *)
(* unrounded, as binary64 keeps the relative precision of a product.       *)
(***************************************************************************)
\* round(1000 * sin(d degrees)) for d = 0..90
SinTab == <<
    0, 17, 35, 52, 70, 87, 105, 122, 139, 156, 174, 191, 208,
    225, 242, 259, 276, 292, 309, 326, 342, 358, 375, 391, 407, 423,
    438, 454, 469, 485, 500, 515, 530, 545, 559, 574, 588, 602, 616,
    629, 643, 656, 669, 682, 695, 707, 719, 731, 743, 755, 766, 777,
    788, 799, 809, 819, 829, 839, 848, 857, 866, 875, 883, 891, 899,
    906, 914, 921, 927, 934, 940, 946, 951, 956, 961, 966, 970, 974,
    978, 982, 985, 988, 990, 993, 995, 996, 998, 999, 999, 1000, 1000
>>

Abs(x) == IF x < 0 THEN -x ELSE x

\* a / b rounded to the nearest integer, b > 0
RoundDiv(a, b) == (2 * a + b) \div (2 * b)

\* math.radians / math.degrees: angles are kept in degrees, a float angle
\* (thousandths of a degree) is rounded to the table's whole degrees
ToDeg(x) == RoundDiv(x, Milli)

\* math.sin(math.radians(d)), d whole degrees
SinPos(d) ==
    LET r == d % 360
    IN  IF d # 0 /\ d % 180 = 0
        THEN (IF (d \div 180) % 2 = 1 THEN 1 ELSE -1)
        ELSE IF r <= 90 THEN SinTab[r + 1]
        ELSE IF r <= 180 THEN SinTab[180 - r + 1]
        ELSE IF r <= 270 THEN -SinTab[r - 180 + 1]
        ELSE -SinTab[360 - r + 1]

SinDeg(d) == IF d < 0 THEN -SinPos(-d) ELSE SinPos(d)

\* math.cos(math.radians(d)), d whole degrees
CosDeg(d) ==
    LET r == Abs(d) % 360
    IN  IF r = 90 THEN 1
        ELSE IF r = 270 THEN -1
        ELSE IF r < 90 THEN SinTab[90 - r + 1]
        ELSE IF r <= 180 THEN -SinTab[r - 90 + 1]
        ELSE IF r < 270 THEN -SinTab[270 - r + 1]
        ELSE SinTab[r - 270 + 1]

\* max(-1, min(1, x))
Clamp(x) == IF x < -Milli THEN -Milli ELSE IF x > Milli THEN Milli ELSE x

\* math.degrees(math.asin(x)) for x in [-1, 1], in whole degrees
AsinPos(x) == CHOOSE d \in 0..90 :
                  SinTab[d + 1] <= x /\ \A e \in (d + 1)..90 : SinTab[e + 1] > x

AsinDeg(x) == IF x < 0 THEN -AsinPos(-x) ELSE AsinPos(x)

\* math.degrees(math.acos(x)) for x in [-1, 1], in whole degrees
AcosDeg(x) == 90 - AsinDeg(x)

\* lst_deg: (280.46 + 360.9856474 * days_since_j2000 + lng) % 360, with the
\* instant in whole hours since J2000 (15.041 degrees of sidereal time each)
LstDeg(lng, time) == (280460 + 15041 * time + lng) % (360 * Milli)

\* n / d for n in thousandths and d > 0 in millionths; a quotient outside
\* [-1, 1] is given as -1 or 1, which is what Clamp makes of it
Ratio(n, d) ==
    IF Abs(n) * Milli >= d THEN (IF n < 0 THEN -Milli ELSE Milli)
    ELSE RoundDiv(n * Milli * Milli, d)

\* the approximate branch; lat, lng and the result in thousandths of a degree
AltAzApprox(star, lat, lng, time) ==
    LET dec == ToDeg(star.dec)
        la  == ToDeg(lat)
        ha  == ToDeg(LstDeg(lng, time)) - ToDeg(star.ra)
        sd  == SinDeg(dec)
        sl  == SinDeg(la)
        cd  == CosDeg(dec)
        cl  == CosDeg(la)
        sin_alt == RoundDiv(sd * sl, Milli)
                   + RoundDiv(RoundDiv(cd * cl, Milli) * CosDeg(ha), Milli)
        alt == AsinDeg(Clamp(sin_alt))
        num == sd - RoundDiv(sl * sin_alt, Milli)
        den == cl * CosDeg(alt)
        cos_az == IF den > 0 THEN Ratio(num, den) ELSE Ratio(-num, -den)
        az  == AcosDeg(Clamp(cos_az))
    IN  IF den = 0 THEN [outcome |-> "ZeroDivisionError", alt |-> 0, az |-> 0]
        ELSE [outcome |-> "returned",
              alt |-> alt * Milli,
              az  |-> IF SinDeg(ha) > 0 THEN (360 - az) * Milli ELSE az * Milli]

\* the wall clock in place of the instant passed in
calculate_alt_az_wallclock(star, lat, lng, time) ==
    AltAzApprox(star, lat, lng, clock)

calculate_alt_az(star, lat, lng, time) == AltAzApprox(star, lat, lng, time)

\* the horizon itself counted as above it
AboveHorizonOrOn(alt) == alt >= 0

\* line 506: if alt > 0
AboveHorizon(alt) == alt > 0

\* lines 503-507 of generate_gldf_for_sky: the stars above the horizon, each
\* with its altitude and azimuth
RECURSIVE VisibleStars(_, _, _, _, _)
VisibleStars(stars, lat, lng, time, visible) ==
    IF stars = <<>> THEN [outcome |-> "returned", visible |-> visible]
    ELSE LET p == calculate_alt_az(Head(stars), lat, lng, time)
         IN  IF p.outcome # "returned"
             THEN [outcome |-> p.outcome, visible |-> <<>>]
             ELSE VisibleStars(Tail(stars), lat, lng, time,
                      IF AboveHorizon(p.alt)
                      THEN Append(visible, <<Head(stars), p.alt, p.az>>)
                      ELSE visible)

(***************************************************************************)
(* Product documents.  A document is the sequence of its elements in       *)
(* document order; an element has a kind (its tag), its id attribute, the  *)
(* reference attributes it carries and, for a File, the file name.         *)
(***************************************************************************)
Ref(attr, to) == [attr |-> attr, to |-> to]

Element(kind, id, refs, name) ==
    [kind |-> kind, id |-> id, refs |-> refs, name |-> name]

File(id, contentType, name) ==
    [kind |-> "File", id |-> id, refs |-> {}, name |-> name,
     contentType |-> contentType]

\* the kind of element a reference attribute points at
TargetKind(attr) ==
    CASE attr = "fileId" -> "File"
      [] attr = "photometryId" -> "Photometry"
      [] attr = "fixedLightSourceId" -> "FixedLightSource"
      [] attr = "spectrumId" -> "Spectrum"
      [] attr = "geometryId" -> "ModelGeometry"
      [] attr = "emitterId" -> "Emitter"

\* a dict as the sequence of its items in insertion order; d[k] = v keeps
\* the place of a key already present
DictSet(d, k, v) ==
    IF \E i \in 1..Len(d) : d[i].key = k
    THEN [i \in 1..Len(d) |-> IF d[i].key = k THEN [key |-> k, val |-> v] ELSE d[i]]
    ELSE Append(d, [key |-> k, val |-> v])

DictGet(d, k) == (CHOOSE i \in 1..Len(d) : d[i].key = k)

Entry(name, data) == [name |-> name, data |-> data]

(***************************************************************************)
(* star_to_id.                                                             *)
(***************************************************************************)
Upper == <<"A", "B", "C", "D", "E", "F", "G", "H", "I", "J", "K", "L", "M", "N", "O", "P", "Q", "R", "S", "T", "U", "V", "W", "X", "Y", "Z">>

Lower == <<"a", "b", "c", "d", "e", "f", "g", "h", "i", "j", "k", "l", "m", "n", "o", "p", "q", "r", "s", "t", "u", "v", "w", "x", "y", "z">>

\* str.lower(), one character
LowerChar(c) == IF \E i \in 1..26 : Upper[i] = c
                THEN Lower[CHOOSE i \in 1..26 : Upper[i] = c]
                ELSE c

\* str.strip()
RECURSIVE LStrip(_)
LStrip(s) == IF s # <<>> /\ Head(s) = " " THEN LStrip(Tail(s)) ELSE s

RECURSIVE RStrip(_)
RStrip(s) == IF s # <<>> /\ s[Len(s)] = " "
             THEN RStrip(SubSeq(s, 1, Len(s) - 1)) ELSE s

Strip(s) == RStrip(LStrip(s))

\* [a-z0-9_]
IsSafeChar(c) == (\E i \in 1..26 : Lower[i] = c) \/ IsDigit(c) \/ c = "_"

\* the characters of the id; addr is id(star), the address of the object
StarIdChars(star, addr) ==
    LET name == Strip([i \in 1..Len(star.name) |-> LowerChar(star.name[i])])
        repl == [i \in 1..Len(name) |->
                    IF name[i] = " " \/ name[i] = "-" THEN "_" ELSE name[i]]
        safe == SelectSeq(repl, IsSafeChar)
        safe_name == IF safe # <<>> /\ IsDigit(safe[1])
                     THEN <<"s", "t", "a", "r", "_">> \o safe ELSE safe
    IN  IF safe_name # <<>> THEN safe_name
        ELSE <<"s", "t", "a", "r", "_">>
             \o IntStr(IF star.hip_id.some /\ star.hip_id.v # 0
                       THEN star.hip_id.v ELSE addr)

star_to_id(star, addr) == Join(StarIdChars(star, addr))

(***************************************************************************)
(* Float arithmetic of the radiometric routines.  A float of moderate size *)
(* is kept in millionths; products and quotients are formed piecewise so   *)
(* that no intermediate result leaves the 32-bit range.                    *)
(***************************************************************************)
Micro == 1000000

\* a * b, both in millionths
MulFix(a, b) ==
    LET ah == a \div 1000
        al == a % 1000
        bh == b \div 1000
        bl == b % 1000
        t  == ah * bl + al * bh
    IN  ah * bh + t \div 1000 + ((t % 1000) * 1000 + al * bl) \div Micro

\* a / b in millionths, for a >= 0 and b > 0 of one unit
DivFix(a, b) ==
    LET r0 == a % b
        r1 == (r0 * 100) % b
        r2 == (r1 * 100) % b
    IN  (a \div b) * Micro + ((r0 * 100) \div b) * 10000
        + ((r1 * 100) \div b) * 100 + (r2 * 100) \div b

\* int(a / b), b > 0: the fraction is cut off toward zero
Trunc(a, b) == IF a >= 0 THEN a \div b ELSE -((-a) \div b)

\* exp(-n) for n = 0, 1, ..., 14
ExpInt == <<1000000, 367879, 135335, 49787, 18316, 6738, 2479, 912, 335, 123,
            45, 17, 6, 2, 1>>

\* 1 - f/1 (1 - f/2 (1 - ... (1 - f/k))): the series of exp(-f)
RECURSIVE ExpSeries(_, _, _)
ExpSeries(f, k, acc) ==
    IF k = 0 THEN acc
    ELSE ExpSeries(f, k - 1, Micro - MulFix(f, acc) \div k)

\* math.exp(-u) for u >= 0
ExpNeg(u) ==
    IF u \div Micro >= 15 THEN 0
    ELSE MulFix(ExpInt[u \div Micro + 1], ExpSeries(u % Micro, 12, Micro))

\* x (1 - x^2/(2*3) (1 - x^2/(4*5) (1 - ...))): the series of sin x
RECURSIVE SinSeries(_, _, _)
SinSeries(x, k, acc) ==
    IF k = 0 THEN MulFix(x, acc)
    ELSE SinSeries(x, k - 1,
                   Micro - MulFix(MulFix(x, x), acc) \div ((2 * k) * (2 * k + 1)))

\* sin r for 0 <= r <= pi
SinHalfTurn(r) == SinSeries(IF r > 1570796 THEN 3141593 - r ELSE r, 6, Micro)

\* sin x for x >= 0
SinTurn(x) ==
    IF x % 6283185 > 3141593 THEN -SinHalfTurn((x % 6283185) - 3141593)
    ELSE SinHalfTurn(x % 6283185)

\* math.sin(x), x in radians
SinRad(x) == IF x < 0 THEN -SinTurn(-x) ELSE SinTurn(x)

\* 1 + z2/3 + z2^2/5 + ...: the series of atanh(z)/z, z2 = z * z
RECURSIVE LnSeries(_, _, _)
LnSeries(z2, k, acc) ==
    IF k < 0 THEN acc
    ELSE LnSeries(z2, k - 1, Micro \div (2 * k + 1) + MulFix(z2, acc))

\* 2 atanh(z)
LnOf(z) == 2 * MulFix(z, LnSeries(MulFix(z, z), 6, 0))

\* math.log(x) for x > 0
RECURSIVE Ln(_)
Ln(x) ==
    IF x >= 2 * Micro THEN Ln(x \div 2) + 693147
    ELSE IF x < Micro THEN Ln(2 * x) - 693147
    ELSE LnOf(DivFix(x - Micro, x + Micro))

\* a float whose size may be far outside the millionths, such as a black
\* body's radiance: its sign and the natural logarithm of its magnitude
Flt(sgn, ln) == [sgn |-> sgn, ln |-> ln]

FltZero == Flt(0, 0)

\* a > b
FltGT(a, b) ==
    IF a.sgn # b.sgn THEN a.sgn > b.sgn
    ELSE IF a.sgn = 1 THEN a.ln > b.ln
    ELSE IF a.sgn = -1 THEN a.ln < b.ln
    ELSE FALSE

(***************************************************************************)
(* Star.temperature and generate_star_spectrum.                            *)
(***************************************************************************)
\* str.upper(), one character
UpperChar(c) == IF \E i \in 1..26 : Lower[i] = c
                THEN Upper[CHOOSE i \in 1..26 : Lower[i] = c]
                ELSE c

\* lines 73-88: the temperature of the spectral class
ClassTemperature(spec) ==
    IF spec[1] = "O" THEN 35000
    ELSE IF spec[1] = "B" THEN 20000
    ELSE IF spec[1] = "A" THEN 9000
    ELSE IF spec[1] = "F" THEN 7000
    ELSE IF spec[1] = "G" THEN 5500
    ELSE IF spec[1] = "K" THEN 4500
    ELSE IF spec[1] = "M" THEN 3200
    ELSE 5500

\* lines 60-70: the temperature of the B-V colour index bv (thousandths)
ColorTemperature(bv) ==
    IF FloatLT(bv, -300) THEN 30000
    ELSE IF FloatLT(bv, 0) THEN 10000 - bv * 10
    ELSE IF FloatLT(bv, 600) THEN 7500 - bv * 5
    ELSE IF FloatLT(bv, 1500) THEN Trunc(12000 - (bv - 600) * 5, 2)
    ELSE 3000

\* the colour index used only when it is truthy
temperature_truthy(star) ==
    IF star.color_index.some /\ star.color_index.v # 0
    THEN ColorTemperature(star.color_index.v)
    ELSE ClassTemperature(
             IF Truthy(star.spectral_type)
             THEN [i \in 1..Len(star.spectral_type.s) |->
                      UpperChar(star.spectral_type.s[i])]
             ELSE <<"G", "2">>)

\* Star.temperature
temperature(star) ==
    IF star.color_index.some
    THEN ColorTemperature(star.color_index.v)
    ELSE ClassTemperature(
             IF Truthy(star.spectral_type)
             THEN [i \in 1..Len(star.spectral_type.s) |->
                      UpperChar(star.spectral_type.s[i])]
             ELSE <<"G", "2">>)

\* range(380, 780, 5): the end point left out
WavelengthsOpen == <<>> \o [i \in 1..80 |-> 375 + 5 * i]

\* range(380, 781, 5)
Wavelengths == <<>> \o [i \in 1..81 |-> 375 + 5 * i]

\* (h * c) / (wl_m * k * temperature) for temperature # 0, with
\* h * c / k = 14393917 nm K; an exponent beyond 700 either way is given
\* as 701 or -701
Exponent(wl_nm, t) ==
    LET xm == (14393917 * 100) \div wl_nm
        e  == IF xm \div Abs(t) > 70000 THEN 701 * Micro
              ELSE (xm \div Abs(t)) * 10000 + ((xm % Abs(t)) * 10000) \div Abs(t)
    IN  IF t < 0 THEN -e ELSE e

\* ln(1 - y) for y = exp(-a), a > 0
LnOneMinus(y) == IF y = 0 THEN 0 ELSE Ln(Micro - y)

\* ln(1.0 / wl_m ** 5) at each wavelength: 45 ln 10 - 5 ln wl_nm
LnInversePower5 ==
    <<>> \o [i \in 1..Len(Wavelengths) |->
                103616329 - 5 * Ln(Wavelengths[i] * Micro)]

\* (1.0 / wl_m ** 5) / (math.exp(exponent) - 1) at the i-th wavelength.  An
\* exponent that rounds to 0 makes the division raise ZeroDivisionError,
\* which is caught as the overflow is.
Radiance(i, exponent) ==
    IF exponent > 700 * Micro \/ exponent = 0 THEN FltZero
    ELSE Flt(IF exponent > 0 THEN 1 ELSE -1,
             LnInversePower5[i]
             - (IF exponent > 0 THEN exponent ELSE 0)
             - LnOneMinus(ExpNeg(Abs(exponent))))

\* lines 212-220: the intensity at the i-th wavelength.  A temperature of 0
\* makes the exponent's division raise ZeroDivisionError, which is caught.
PlanckIntensity(i, t) ==
    IF t = 0 THEN FltZero
    ELSE Radiance(i, Exponent(Wavelengths[i], t))

\* max(i for _, i in spectrum)
MaxFlt(vals) ==
    vals[CHOOSE i \in 1..Len(vals) :
             \A j \in 1..Len(vals) : ~FltGT(vals[j], vals[i])]

\* lines 223-225: if max_intensity > 0, every intensity divided by it
Normalize(vals, max_intensity) ==
    <<>> \o [i \in 1..Len(vals) |->
        [wl |-> Wavelengths[i],
         v  |-> IF max_intensity.sgn > 0 /\ vals[i].sgn # 0
                THEN Flt(vals[i].sgn, vals[i].ln - max_intensity.ln)
                ELSE vals[i]]]

NormalizeByMax(vals) == Normalize(vals, MaxFlt(vals))

generate_star_spectrum(t) ==
    NormalizeByMax(<<>> \o [i \in 1..Len(Wavelengths) |-> PlanckIntensity(i, t)])

(***************************************************************************)
(* generate_tm33_for_star.                                                 *)
(***************************************************************************)
\* the wall clock ticks twice a day
TicksPerDay == 2

\* datetime.now().strftime("%Y-%m-%d")
Today(now) == now \div TicksPerDay

\* f"{v:.4f}" of a spectrum value: ten-thousandths, nearest
Fmt4(v) ==
    IF v.sgn = 0 THEN 0
    ELSE v.sgn * RoundDiv(ExpNeg(-v.ln), 100)

\* str.replace(old, new), one character for one
Replace(s, old, new) ==
    [i \in 1..Len(s) |-> IF s[i] = old THEN new ELSE s[i]]

\* the intensity_data of lines 241-244: all light straight up
StarIntensityData ==
    <<>> \o [i \in 1..19 |-> [horz |-> 0, vert |-> 5 * (i - 1),
                      v |-> IF i = 1 THEN 10000 ELSE 0]]

\* lines 236-238: wavelengths_str and values_str
SpectrumText(spectrum) ==
    [Wavelengths |-> <<>> \o [i \in 1..Len(spectrum) |-> spectrum[i].wl],
     Values      |-> <<>> \o [i \in 1..Len(spectrum) |-> Fmt4(spectrum[i].v)]]

\* int(10 ** ((0 - mag) / 2.5) * 1000) for a finite mag in thousandths.  A
\* value below 10 ** 6 is kept as the integer, a larger one by its decimal
\* logarithm in millionths.
Lumens(huge, v) == [huge |-> huge, v |-> v]

\* int(10 ** (log10 / 10 ** 6)) for 0 <= log10 < 6 * 10 ** 6
Pow10Floor(log10) ==
    LET k == log10 \div Micro
        f == log10 % Micro
    IN  IF f = 0 THEN Pow10(k \div 2) * Pow10(k - k \div 2)
        ELSE ExpNeg(MulFix(Micro - f, 2302585))
                 \div (Pow10((5 - k) \div 2) * Pow10((5 - k) - (5 - k) \div 2))

StarLumensOf(log10) ==
    IF log10 < 0 THEN Lumens(FALSE, 0)
    ELSE IF log10 >= 6 * Micro THEN Lumens(TRUE, log10)
    ELSE Lumens(FALSE, Pow10Floor(log10))

StarLumens(mag) == StarLumensOf(3 * Micro - mag * 400)

\* min(lumens, 2000000000); log10(2 * 10 ** 9) = 9.301030
CapLumens(lumens) ==
    IF lumens.huge /\ lumens.v > 9301030 THEN Lumens(FALSE, 2000000000)
    ELSE lumens

Tm33Text(star, today, text) ==
    [name          |-> star.name,
     spectral_type |-> star.spectral_type,
     mag           |-> star.mag,
     CatalogNumber |-> Replace(star.name, " ", "_"),
     ReportNumber  |-> <<"S", "T", "A", "R", "-">> \o Replace(star.name, " ", "-"),
     ReportDate    |-> today,
     DocumentCreationDate |-> today,
     EmitterId     |-> <<"s", "t", "a", "r", "-">>
                       \o Replace([i \in 1..Len(star.name) |->
                                      LowerChar(star.name[i])], " ", "-"),
     RatedLumens   |-> StarLumens(star.mag),
     FixedCCT      |-> temperature(star),
     Wavelengths   |-> text.Wavelengths,
     Values        |-> text.Values,
     IntensityData |-> StarIntensityData]

(***************************************************************************)
(* generate_gldf_for_sky.                                                  *)
(***************************************************************************)
\* the spectrum's text at the temperatures of the fallback stars and of the
\* colour indices 0.5 and 0.0, computed once
StarSpectra ==
    [t \in {temperature(get_fallback_stars[i]) : i \in 1..Len(get_fallback_stars)}
           \cup {ColorTemperature(500), ColorTemperature(0)} |->
        SpectrumText(generate_star_spectrum(t))] @@ <<>>

\* the text of the photometric file of a star, by its parts
generate_tm33_for_star(star, now) ==
    Tm33Text(star, Today(now),
             IF temperature(star) \in DOMAIN StarSpectra
             THEN StarSpectra[temperature(star)]
             ELSE SpectrumText(generate_star_spectrum(temperature(star))))

\* id(star) of the i-th visible star: the objects are distinct and live
\* together, so are their addresses; where the heap puts them varies
Addr(heap, i) == heap + 64 * i

\* lines 511-516: tm33_files[star_id] = (filename, content)
RECURSIVE Tm33Files(_, _, _, _, _)
Tm33Files(visible, i, heap, now, d) ==
    IF i > Len(visible) THEN d
    ELSE LET star    == visible[i][1]
             star_id == star_to_id(star, Addr(heap, i))
         IN  Tm33Files(visible, i + 1, heap, now,
                 DictSet(d, star_id,
                         [filename |-> star_id \o ".iesxml",
                          content  |-> generate_tm33_for_star(star, now)]))

\* line 522: star_ids = [(star, star_to_id(star)) for star, _, _ in visible_stars]
StarIds(visible, heap) ==
    [i \in 1..Len(visible) |-> star_to_id(visible[i][1], Addr(heap, i))]

\* lines 524-581: the elements of product.xml
SkyDocument(visible, star_ids, tm33_files) ==
    [i \in 1..Len(star_ids) |->
        File("file_" \o star_ids[i], "ldc/iesxml",
             tm33_files[DictGet(tm33_files, star_ids[i])].val.filename)]
    \o [i \in 1..Len(star_ids) |->
        Element("Photometry", "photometry_" \o star_ids[i],
                {Ref("fileId", "file_" \o star_ids[i])}, "")]
    \o [i \in 1..Len(star_ids) |->
        Element("FixedLightSource", "lightsource_" \o star_ids[i], {}, "")]
    \o [i \in 1..Len(star_ids) |->
        [RatedLuminousFlux |-> CapLumens(StarLumens(visible[i][1].mag))]
        @@ Element("Emitter", "emitter_" \o star_ids[i],
                   {Ref("photometryId", "photometry_" \o star_ids[i]),
                    Ref("fixedLightSourceId", "lightsource_" \o star_ids[i])}, "")]
    \o [i \in 1..Len(star_ids) |->
        Element("Variant", "variant_" \o star_ids[i], {}, "")]

\* the text of product.xml, by what it is composed from
ProductXml(timestamp, doc) == [timestamp |-> timestamp, doc |-> doc]

\* json.dumps of a viewer manifest, by its fields; None is written null
NullOr(present, name) == IF present THEN name ELSE "null"

\* embed_wasm_viewers: the entries added for the viewer files found on disk
embed_wasm_viewers(disk) ==
    (IF {"starsky/pkg", "gldf_starsky_wasm.js", "gldf_starsky_wasm_bg.wasm"}
            \subseteq disk
     THEN <<Entry("other/viewer/starsky/manifest.json",
                  [type |-> "starsky", js |-> "gldf_starsky_wasm.js",
                   wasm |-> "gldf_starsky_wasm_bg.wasm"]),
            Entry("other/viewer/starsky/gldf_starsky_wasm.js", "js"),
            Entry("other/viewer/starsky/gldf_starsky_wasm_bg.wasm", "wasm")>>
     ELSE <<>>)
    \o
    (IF {"acadlisp/dist", "acadlisp-1.js", "acadlisp-1_bg.wasm"} \subseteq disk
     THEN <<Entry("other/viewer/acadlisp/manifest.json",
                  [type |-> "acadlisp", js |-> "acadlisp-1.js",
                   wasm |-> "acadlisp-1_bg.wasm",
                   xlisp_js |-> NullOr("xlisp.js" \in disk, "xlisp.js"),
                   xlisp_wasm |-> NullOr("xlisp.wasm" \in disk, "xlisp.wasm")]),
            Entry("other/viewer/acadlisp/acadlisp-1.js", "js"),
            Entry("other/viewer/acadlisp/acadlisp-1_bg.wasm", "wasm")>>
          \o (IF {"xlisp.js", "xlisp.wasm"} \subseteq disk
              THEN <<Entry("other/viewer/acadlisp/xlisp.js", "js"),
                     Entry("other/viewer/acadlisp/xlisp.wasm", "wasm")>>
              ELSE <<>>)
     ELSE <<>>)

SkyRaised(kind) == [outcome |-> kind, visible |-> <<>>, archive |-> <<>>]

\* the names of the stars in a visible_stars list
Names(visible) == [i \in 1..Len(visible) |-> visible[i][1].name]

\* lines 662-676: the entries written to the archive, in order
SkyArchive(product_xml, tm33_files, sky_json, lisp_code, disk) ==
    <<Entry("product.xml", product_xml)>>
    \o [i \in 1..Len(tm33_files) |->
          Entry("ldc/" \o tm33_files[i].val.filename, tm33_files[i].val.content)]
    \o <<Entry("other/sky_data.json", sky_json),
         Entry("other/autolisp/star_sky.lsp", lisp_code)>>
    \o embed_wasm_viewers(disk)

\* lines 641-678, given the second visible list
SkyWrite(visible, sky, disk, now, heap) ==
    IF sky.outcome # "returned" THEN SkyRaised(sky.outcome)
    ELSE [outcome |-> "returned",
          visible |-> visible,
          archive |-> SkyArchive(
                          ProductXml(now, SkyDocument(visible, StarIds(visible, heap),
                                         Tm33Files(visible, 1, heap, now, <<>>))),
                          Tm33Files(visible, 1, heap, now, <<>>),
                          Names(sky.visible), Names(visible), disk)]

\* lines 509-639, given the first visible list and the second catalogue read
SkyCompose(vis, all_stars, lat, lng, time, disk, now, heap) ==
    IF vis.outcome # "returned" THEN SkyRaised(vis.outcome)
    ELSE IF all_stars.outcome # "returned" THEN SkyRaised(all_stars.outcome)
    ELSE SkyWrite(vis.visible,
                  VisibleStars(all_stars.stars, lat, lng, time, <<>>),
                  disk, now, heap)

\* lines 500-507, given the two catalogue reads
SkyFilter(stars, all_stars, lat, lng, time, disk, now, heap) ==
    IF stars.outcome # "returned" THEN SkyRaised(stars.outcome)
    ELSE SkyCompose(VisibleStars(stars.stars, lat, lng, time, <<>>),
                    all_stars, lat, lng, time, disk, now, heap)

generate_gldf_for_sky(cat, lat, lng, time, mag_limit, json_mag_limit, disk, now, heap) ==
    SkyFilter(get_stars(cat, mag_limit), get_stars(cat, json_mag_limit),
              lat, lng, time, disk, now, heap)

(***************************************************************************)
(* enrich_aec_gldf.py: the two AEC generators.                             *)
(***************************************************************************)
WATTAGES == <<30, 50, 75, 100, 150, 200>>

CCTS == <<3000, 3500, 4000, 5000, 6500>>

OPTICS == <<"Narrow", "Medium", "Wide", "Asymmetric">>

LENGTHS == <<600, 900, 1200, 1500, 1800>>

COLORS == <<<<"RAL9003", "White">>, <<"RAL9005", "Black">>, <<"RAL9006", "Silver">>>>

Str(n) == Join(IntStr(n))

Min(a, b) == IF a < b THEN a ELSE b

\* the k-th entry of the light_sources list built by
\* for wattage in wattages: for cct in CCTS
LightSource(wattages, k) ==
    LET wattage == wattages[((k - 1) \div Len(CCTS)) + 1]
        cct     == CCTS[((k - 1) % Len(CCTS)) + 1]
    IN  [id      |-> "led_" \o Str(wattage) \o "W_" \o Str(cct) \o "K",
         wattage |-> wattage,
         cct     |-> cct]

\* len(light_sources)
NumLightSources(wattages) == Len(wattages) * Len(CCTS)

\* the variant count with the inner loop over every light source
NumEnrichedVariantsAllSources ==
    Len(LENGTHS) * Len(OPTICS) * Len(COLORS) * NumLightSources(WATTAGES)

\* len(variants) of the enriched document: for length in LENGTHS: for optic
\* in OPTICS: for colour in COLORS: for ls in light_sources[:10]
NumEnrichedVariants ==
    Len(LENGTHS) * Len(OPTICS) * Len(COLORS) * Min(10, NumLightSources(WATTAGES))

\* the elements of the enriched product.xml, in document order
EnrichedDocument ==
    <<File("geometry_file", "geometry/l3d", "model.l3d"),
      File("photometry_file", "ldc/eulumdat", "photometry.ldt"),
      File("image_file", "image/jpg", "product.jpg"),
      Element("Photometry", "photometry", {Ref("fileId", "photometry_file")}, "")>>
    \o [k \in 1..NumLightSources(WATTAGES) |->
          Element("FixedLightSource", LightSource(WATTAGES, k).id, {}, "")]
    \o [k \in 1..NumLightSources(WATTAGES) |->
          Element("Emitter", "emitter_" \o LightSource(WATTAGES, k).id,
                  {Ref("photometryId", "photometry"),
                   Ref("fixedLightSourceId", LightSource(WATTAGES, k).id)}, "")]
    \o <<Element("ModelGeometry", "geometry", {Ref("fileId", "geometry_file")}, "")>>
    \o [n \in 1..NumEnrichedVariants |->
          Element("Variant", "variant_" \o Str(n),
                  {Ref("geometryId", "geometry"),
                   Ref("emitterId",
                       "emitter_"
                       \o LightSource(WATTAGES,
                              ((n - 1) % Min(10, NumLightSources(WATTAGES))) + 1).id)},
                  "")]

\* the "spectrum_id" and "photometry_id" a spectral light source carries
LightSourceSpectrumId(cct) == "spectrum_" \o Str(cct) \o "K"

\* a photometry_id spelled without the unit the Photometry ids end in
LightSourcePhotometryIdNoUnit(cct) == "photometry_" \o Str(cct)

\* a photometry_id that names the Photometry of the first configured CCT
LightSourcePhotometryIdFirst(cct) == "photometry_" \o Str(CCTS[1]) \o "K"

LightSourcePhotometryId(cct) == "photometry_" \o Str(cct) \o "K"

\* WATTAGES[:3]
SpectralWattages == SubSeq(WATTAGES, 1, 3)

\* len(variants) of the spectral document: for length in LENGTHS[:2]: for
\* ls in light_sources
NumSpectralVariants == 2 * NumLightSources(SpectralWattages)

\* the elements of the spectral product.xml, in document order
SpectralDocument ==
    <<File("geometry_file", "geometry/l3d", "model.l3d"),
      File("image_file", "image/jpg", "product.jpg")>>
    \o [i \in 1..Len(CCTS) |->
          File("photometry_" \o Str(CCTS[i]) \o "K", "ldc/iesxml",
               "GA15_" \o Str(CCTS[i]) \o "K.iesxml")]
    \o [i \in 1..Len(CCTS) |->
          Element("Photometry", "photometry_" \o Str(CCTS[i]) \o "K",
                  {Ref("fileId", "photometry_" \o Str(CCTS[i]) \o "K")}, "")]
    \o [i \in 1..Len(CCTS) |->
          Element("Spectrum", "spectrum_" \o Str(CCTS[i]) \o "K",
                  {Ref("fileId", "photometry_" \o Str(CCTS[i]) \o "K")}, "")]
    \o [k \in 1..NumLightSources(SpectralWattages) |->
          Element("FixedLightSource", LightSource(SpectralWattages, k).id,
                  {Ref("spectrumId",
                       LightSourceSpectrumId(LightSource(SpectralWattages, k).cct))},
                  "")]
    \o [k \in 1..NumLightSources(SpectralWattages) |->
          Element("Emitter", "emitter_" \o LightSource(SpectralWattages, k).id,
                  {Ref("photometryId",
                       LightSourcePhotometryId(LightSource(SpectralWattages, k).cct)),
                   Ref("fixedLightSourceId", LightSource(SpectralWattages, k).id)},
                  "")]
    \o <<Element("ModelGeometry", "geometry", {Ref("fileId", "geometry_file")}, "")>>
    \o [n \in 1..NumSpectralVariants |->
          Element("Variant", "variant_" \o Str(n),
                  {Ref("geometryId", "geometry"),
                   Ref("emitterId",
                       "emitter_"
                       \o LightSource(SpectralWattages,
                              ((n - 1) % NumLightSources(SpectralWattages)) + 1).id)},
                  "")]

\* a file on disk
NoFile == [exists |-> FALSE, entries |-> <<>>]

Archive(entries) == [exists |-> TRUE, entries |-> entries]

HasEntry(archive, name) ==
    \E i \in 1..Len(archive.entries) : archive.entries[i].name = name

\* a read that returns the first entry whatever the name
ZipReadFirst(archive, name) == archive.entries[1].data

\* ZipFile.read(name)
ZipRead(archive, name) ==
    archive.entries[CHOOSE i \in 1..Len(archive.entries) :
                        archive.entries[i].name = name].data

\* the with-block that opens the input archive and reads the named entries:
\* the exception it ends with, or "ok"
ReadInput(input, names) ==
    IF ~input.exists THEN "FileNotFoundError"
    ELSE IF \E i \in 1..Len(names) : ~HasEntry(input, names[i]) THEN "KeyError"
    ELSE "ok"

\* what a generator call leaves behind: how it ended, what it returned and
\* the output file
AecResult(outcome, ret, file) == [outcome |-> outcome, ret |-> ret, file |-> file]

\* the enriched generator opening the output archive to append, so that an
\* existing output keeps its entries
generate_enriched_gldf_appending(input, output, now) ==
    LET read == ReadInput(input, <<"geometry/model.l3d", "ldc/photometry.ldt",
                                   "image/product.jpg">>)
    IN  IF read # "ok" THEN AecResult(read, <<>>, output)
        ELSE AecResult("returned",
                 <<NumEnrichedVariants, NumLightSources(WATTAGES)>>,
                 Archive(output.entries
                         \o <<Entry("product.xml", ProductXml(now, EnrichedDocument)),
                              Entry("geometry/model.l3d", ZipRead(input, "geometry/model.l3d")),
                              Entry("ldc/photometry.ldt", ZipRead(input, "ldc/photometry.ldt")),
                              Entry("image/product.jpg", ZipRead(input, "image/product.jpg"))>>))

generate_enriched_gldf(input, output, now) ==
    LET read == ReadInput(input, <<"geometry/model.l3d", "ldc/photometry.ldt",
                                   "image/product.jpg">>)
    IN  IF read # "ok" THEN AecResult(read, <<>>, output)
        ELSE AecResult("returned",
                 <<NumEnrichedVariants, NumLightSources(WATTAGES)>>,
                 Archive(<<Entry("product.xml", ProductXml(now, EnrichedDocument)),
                           Entry("geometry/model.l3d", ZipRead(input, "geometry/model.l3d")),
                           Entry("ldc/photometry.ldt", ZipRead(input, "ldc/photometry.ldt")),
                           Entry("image/product.jpg", ZipRead(input, "image/product.jpg"))>>))

(***************************************************************************)
(* The LED radiometric routines.  A routine that may raise returns Ok(v)   *)
(* or Raise(kind).                                                         *)
(***************************************************************************)
\* math.exp(-(r * r) / 2)
GaussOf(r) == ExpNeg(MulFix(r, r) \div 2)

\* math.exp(-(d ** 2) / (2 * w ** 2)) for d and w of one unit, w # 0; eight
\* widths out the value is below a millionth of a millionth
Gauss(d, w) ==
    IF Abs(d) >= 8 * Abs(w) THEN 0 ELSE GaussOf(DivFix(Abs(d), Abs(w)))

\* max(0, x)
Max0(x) == IF x < 0 THEN 0 ELSE x

\* lines 49-53: the red phosphor of the warm modules
RedPhosphor(wl, cct) ==
    IF cct <= 4000
    THEN MulFix(MulFix(DivFix(4000 - cct, 3000), 400000), Gauss(wl - 620, 40))
    ELSE 0

\* lines 41-46: the phosphor peak, at phosphor_peak_wl (thousandths of a nm)
\* and of phosphor_width (thousandths of a nm)
Phosphor(wl, phosphor_peak_wl, phosphor_width) ==
    MulFix(800000, Gauss(wl * 1000 - phosphor_peak_wl, phosphor_width))

\* lines 37-60: the intensity at wavelength wl
LedIntensity(wl, cct) ==
    Max0(MulFix(MulFix(600000, Gauss(wl - 450, 15))
                + Phosphor(wl, 580000 - (cct - 4000) * 20,
                           80000 + (cct - 3000) * 10)
                + RedPhosphor(wl, cct),
                Micro + MulFix(20000, SinRad(wl * 100000))))

\* max(i for _, i in spectrum)
MaxOf(vals) ==
    vals[CHOOSE i \in 1..Len(vals) : \A j \in 1..Len(vals) : vals[j] <= vals[i]]

\* lines 62-64: if max_intensity > 0, every intensity divided by it
NormalizeLed(vals, max_intensity) ==
    <<>> \o [i \in 1..Len(vals) |->
                [wl |-> Wavelengths[i],
                 v  |-> IF max_intensity > 0
                        THEN DivFix(vals[i], max_intensity) ELSE vals[i]]]

NormalizeLedByMax(vals) == NormalizeLed(vals, MaxOf(vals))

\* a phosphor_width of 0 makes the exponent's division raise
generate_fake_spectrum(cct) ==
    IF 80000 + (cct - 3000) * 10 = 0 THEN Raise("ZeroDivisionError")
    ELSE Ok(NormalizeLedByMax(
                <<>> \o [i \in 1..Len(Wavelengths) |->
                            LedIntensity(Wavelengths[i], cct)]))

\* max(lo, min(hi, x))
ClampTo(lo, hi, x) == IF x < lo THEN lo ELSE IF x > hi THEN hi ELSE x

\* Rf and Rg as computed, not limited to their ranges
generate_tm30_values_unclamped(cct) ==
    <<85 + (IF cct <= 3000 THEN 5
            ELSE IF cct <= 4000 THEN 3
            ELSE IF cct <= 5000 THEN 0
            ELSE -2)
         + Trunc(3 * SinRad(cct * 1000), Micro),
      100 - Trunc(cct - 4000, 500)>>

generate_tm30_values(cct) ==
    <<ClampTo(70, 95, 85 + (IF cct <= 3000 THEN 5
                            ELSE IF cct <= 4000 THEN 3
                            ELSE IF cct <= 5000 THEN 0
                            ELSE -2)
                      + Trunc(3 * SinRad(cct * 1000), Micro)),
      ClampTo(95, 108, 100 - Trunc(cct - 4000, 500))>>

\* c3 t^3 + c2 t^2 + c1 t + c0
Poly(t, c3, c2, c1, c0) ==
    MulFix(MulFix(MulFix(c3, t) + c2, t) + c1, t) + c0

\* round(v, 4): ten-thousandths, nearest
Round4(v) == RoundDiv(v, 100)

\* lines 88-91: x from t = 1000 / cct
CieX(cct, t) ==
    IF cct < 4000 THEN Poly(t, -266124, -234359, 877696, 179910)
    ELSE Poly(t, -3025847, 2107038, 222635, 240390)

\* lines 93-98
CieY(cct, x) ==
    IF cct < 2222 THEN Poly(x, -1106381, -1348110, 2185558, -202197)
    ELSE IF cct < 4000 THEN Poly(x, -954948, -1374186, 2091370, -167489)
    ELSE Poly(x, 3081758, -5873387, 3751130, -370015)

CieRounded(cct, x) == <<Round4(x), Round4(CieY(cct, x))>>

\* the x polynomial of the cool modules for every CCT
generate_cie_xy_cool(cct) ==
    IF cct = 0 THEN Raise("ZeroDivisionError")
    ELSE Ok(CieRounded(cct, Poly(IF cct < 0 THEN -DivFix(1000, -cct)
                                 ELSE DivFix(1000, cct),
                                 -3025847, 2107038, 222635, 240390)))

\* a CCT of 0 makes the first division raise
generate_cie_xy(cct) ==
    IF cct = 0 THEN Raise("ZeroDivisionError")
    ELSE Ok(CieRounded(cct, CieX(cct, IF cct < 0 THEN -DivFix(1000, -cct)
                                      ELSE DivFix(1000, cct))))

\* range(0, 91, 15) and range(0, 91, 5)
c_planes     == <<>> \o [i \in 1..7 |-> 15 * (i - 1)]
gamma_angles == <<>> \o [i \in 1..19 |-> 5 * (i - 1)]

\* lines 119-124: the intensity at (c, gamma) of a beam of beam_width
\* (thousandths of a degree), in thousandths of a candela
BeamIntensity(c, gamma, beam_width) ==
    Max0(MulFix(Gauss(gamma * 1000, beam_width),
                Micro + MulFix(20000, SinRad((c * 4 * 1745329) \div 100))))

\* a beam_width of 0 makes the exponent's division raise
generate_fake_photometry(cct) ==
    IF 35000 + (cct - 3000) * 2 = 0 THEN Raise("ZeroDivisionError")
    ELSE Ok([intensities |->
                <<>> \o [g \in 1..Len(gamma_angles) |->
                    <<>> \o [c \in 1..Len(c_planes) |->
                        BeamIntensity(c_planes[c], gamma_angles[g],
                                      35000 + (cct - 3000) * 2)]],
             c_planes |-> c_planes,
             gamma_angles |-> gamma_angles])

\* f"{v:.1f}" of an intensity (thousandths): tenths, nearest
Fmt1(v) == RoundDiv(v, 100)

\* f"{v:.4f}" of a spectrum value (millionths): ten-thousandths, nearest
Fmt4Led(v) == RoundDiv(v, 100)

\* one IntensityData element per C plane and, within it, per gamma angle
IntensityDataByPlane(photometry) ==
    <<>> \o [k \in 1..(Len(photometry.gamma_angles) * Len(photometry.c_planes)) |->
        [horz |-> photometry.c_planes[((k - 1) \div Len(photometry.gamma_angles)) + 1],
         vert |-> photometry.gamma_angles[((k - 1) % Len(photometry.gamma_angles)) + 1],
         v    |-> Fmt1(photometry.intensities
                         [((k - 1) % Len(photometry.gamma_angles)) + 1]
                         [((k - 1) \div Len(photometry.gamma_angles)) + 1])]]

\* lines 158-161: one IntensityData element per gamma angle and, within
\* it, per C plane
IntensityData(photometry) ==
    <<>> \o [k \in 1..(Len(photometry.gamma_angles) * Len(photometry.c_planes)) |->
        [horz |-> photometry.c_planes[((k - 1) % Len(photometry.c_planes)) + 1],
         vert |-> photometry.gamma_angles[((k - 1) \div Len(photometry.c_planes)) + 1],
         v    |-> Fmt1(photometry.intensities
                         [((k - 1) \div Len(photometry.c_planes)) + 1]
                         [((k - 1) % Len(photometry.c_planes)) + 1])]]

\* lines 149-151: lumens = int(wattage * (150 - (wattage - 30) * 0.3))
RatedLumens(wattage) == Trunc(wattage * (1500 - (wattage - 30) * 3), 10)

\* lines 163-227: the text returned, by its parts
IesxmlText(cct, wattage, spectrum, tm30, photometry) ==
    [CatalogNumber |-> "GA15-" \o Str(cct) \o "K",
     ReportNumber  |-> "GA15-TM33-" \o Str(cct) \o "K",
     ReportDate    |-> "2024-01-15",
     DocumentCreationDate |-> "2024-01-15",
     EmitterId     |-> "led-" \o Str(cct) \o "k",
     RatedLumens   |-> RatedLumens(wattage),
     InputWattage  |-> wattage,
     FixedCCT      |-> cct,
     Rf            |-> tm30[1],
     Rg            |-> tm30[2],
     IntensityData |-> IntensityData(photometry),
     Wavelengths   |-> <<>> \o [i \in 1..Len(spectrum) |-> spectrum[i].wl],
     Values        |-> <<>> \o [i \in 1..Len(spectrum) |-> Fmt4Led(spectrum[i].v)]]

\* lines 143-146: the four routines called in turn, the first exception
\* ending the call
IesxmlOf(cct, wattage, spectrum, xy, photometry) ==
    IF spectrum.tag # "ok" THEN Raise(spectrum.tag)
    ELSE IF xy.tag # "ok" THEN Raise(xy.tag)
    ELSE IF photometry.tag # "ok" THEN Raise(photometry.tag)
    ELSE Ok(IesxmlText(cct, wattage, spectrum.v, generate_tm30_values(cct),
                       photometry.v))

generate_iesxml_content(cct, wattage) ==
    IesxmlOf(cct, wattage, generate_fake_spectrum(cct), generate_cie_xy(cct),
             generate_fake_photometry(cct))

\* the photometric files of the configured CCTs at 50 W, computed once
SpectralFiles ==
    <<>> \o [i \in 1..Len(CCTS) |-> generate_iesxml_content(CCTS[i], 50).v]

\* the spectral generator opening the output archive for writing before it
\* reads the input: a failed read leaves an empty output archive
generate_spectral_gldf_output_first(input, output, now) ==
    LET read == ReadInput(input, <<"geometry/model.l3d", "image/product.jpg">>)
    IN  IF read # "ok" THEN AecResult(read, <<>>, Archive(<<>>))
        ELSE AecResult("returned",
                 <<NumSpectralVariants, NumLightSources(SpectralWattages), Len(CCTS)>>,
                 Archive(<<Entry("product.xml", ProductXml(now, SpectralDocument)),
                           Entry("geometry/model.l3d", ZipRead(input, "geometry/model.l3d")),
                           Entry("image/product.jpg", ZipRead(input, "image/product.jpg"))>>
                         \o [i \in 1..Len(CCTS) |->
                               Entry("ldc/GA15_" \o Str(CCTS[i]) \o "K.iesxml",
                                     SpectralFiles[i])]))

generate_spectral_gldf(input, output, now) ==
    LET read == ReadInput(input, <<"geometry/model.l3d", "image/product.jpg">>)
    IN  IF read # "ok" THEN AecResult(read, <<>>, output)
        ELSE AecResult("returned",
                 <<NumSpectralVariants, NumLightSources(SpectralWattages), Len(CCTS)>>,
                 Archive(<<Entry("product.xml", ProductXml(now, SpectralDocument)),
                           Entry("geometry/model.l3d", ZipRead(input, "geometry/model.l3d")),
                           Entry("image/product.jpg", ZipRead(input, "image/product.jpg"))>>
                         \o [i \in 1..Len(CCTS) |->
                               Entry("ldc/GA15_" \o Str(CCTS[i]) \o "K.iesxml",
                                     SpectralFiles[i])]))

(***************************************************************************)
(* Values of the variables a specification does not use.                   *)
(***************************************************************************)
NoCall == [some |-> FALSE, inp |-> <<>>, out |-> <<>>, at |-> 0]

IdleCat == catalogue = NoCatalogue /\ loads = <<>>
IdleAz  == firstCall = NoCall /\ lastCall = NoCall
IdleSky == skyIn = <<>> /\ skyOut = <<>>
IdleAec == inArchive = <<>> /\ outFiles = <<>> /\ aecOut = <<>>
IdleRun == script = "none" /\ pc = "idle"

(***************************************************************************)
(* SpecCat: get_stars called on a catalogue resource.                      *)
(***************************************************************************)
InitCat ==
    /\ catalogue \in Catalogues
    /\ loads = <<>>
    /\ clock = 0
    /\ IdleAz /\ IdleSky /\ IdleAec /\ IdleRun

GetStars ==
    /\ Len(loads) < MaxCalls
    /\ \E m \in MagLimits :
          LET r == get_stars(catalogue, m)
          IN  loads' = Append(loads, [mag_limit |-> m, outcome |-> r.outcome,
                                      stars |-> r.stars])
    /\ UNCHANGED <<catalogue, clock, azVars, skyVars, aecVars, script, pc>>

NextCat == GetStars

SpecCat == InitCat /\ [][NextCat]_vars

(***************************************************************************)
(* SpecAltAz: calculate_alt_az called on a star, an observer and an        *)
(* instant of the valid domain.                                            *)
(***************************************************************************)
MaxTime == 3       \* instants: whole hours 0..MaxTime after J2000

AzStar(ra, dec) == Star(<<"x">>, None, ra, dec, 0, Txt(<<>>), None)

\* right ascensions and declinations, in thousandths of a degree
AzRas  == {0, 37954, 90000, 180000, 270000, 330000}
AzDecs == {-90000, -60000, -30000, 0, 30000, 60000, 89264, 90000}
AzLats == {-90000, -45000, 0, 51770, 90000}
AzLngs == {-100460, 0, 7440, 79540}
Times  == 0..MaxTime

Tick ==
    /\ clock < MaxClock
    /\ clock' = clock + 1
    /\ UNCHANGED <<catVars, azVars, skyVars, aecVars, script, pc>>

Pending(inp) == [some |-> FALSE, inp |-> inp, out |-> <<>>, at |-> 0]

\* the arguments of the call are drawn here; CallAltAz makes the call
InitAltAz ==
    /\ clock = 0
    /\ firstCall = NoCall
    /\ \E ra \in AzRas, dec \in AzDecs, lat \in AzLats, lng \in AzLngs,
          time \in Times :
          lastCall = Pending(<<AzStar(ra, dec), lat, lng, time>>)
    /\ IdleCat /\ IdleSky /\ IdleAec /\ IdleRun

CallAltAz ==
    /\ ~lastCall.some
    /\ lastCall' = [some |-> TRUE,
                    inp  |-> lastCall.inp,
                    out  |-> calculate_alt_az(lastCall.inp[1], lastCall.inp[2],
                                              lastCall.inp[3], lastCall.inp[4]),
                    at   |-> clock]
    /\ UNCHANGED <<catVars, clock, firstCall, skyVars, aecVars, script, pc>>

NextAltAz == CallAltAz \/ Tick

SpecAltAz == InitAltAz /\ [][NextAltAz]_vars

(***************************************************************************)
(* SpecRerun: the visible stars of one star list, observer and instant     *)
(* computed again and again while the wall clock advances; the computation *)
(* before the latest one is remembered.                                    *)
(***************************************************************************)
StarLists == {get_fallback_stars,
              <<AzStar(0, 0), AzStar(90000, 60000)>>}
RerunLats == {51770, -45000}
RerunLngs == {7440, -100460}

InitRerun ==
    /\ clock = 0
    /\ firstCall = NoCall
    /\ \E stars \in StarLists, lat \in RerunLats, lng \in RerunLngs,
          time \in Times :
          lastCall = Pending(<<stars, lat, lng, time>>)
    /\ IdleCat /\ IdleSky /\ IdleAec /\ IdleRun

ComputeVisible ==
    /\ lastCall' = [some |-> TRUE,
                    inp  |-> lastCall.inp,
                    out  |-> VisibleStars(lastCall.inp[1], lastCall.inp[2],
                                          lastCall.inp[3], lastCall.inp[4], <<>>),
                    at   |-> clock]
    /\ firstCall' = IF lastCall.some THEN lastCall ELSE firstCall
    /\ UNCHANGED <<catVars, clock, skyVars, aecVars, script, pc>>

NextRerun == ComputeVisible \/ Tick

SpecRerun == InitRerun /\ [][NextRerun]_vars

(***************************************************************************)
(* SpecPhoto: one of the radiometric routines called on one argument list, *)
(* again and again while the wall clock advances; the call before the      *)
(* latest one is remembered.                                               *)
(***************************************************************************)
\* colour indices (thousandths) and spectral types of the stars
PhotoColors ==
    {None, Some(NaN), Some(-500), Some(-300), Some(-1), Some(0), Some(599),
     Some(600), Some(1499), Some(1500)}

PhotoSpectralTypes ==
    {NoneTxt, Txt(<<>>), Txt(<<"O", "5">>), Txt(<<"b", "2">>),
     Txt(<<"A", "0">>), Txt(<<"F">>), Txt(<<"G", "2", "V">>),
     Txt(<<"k", "1">>), Txt(<<"M", "5">>), Txt(<<"X">>), Txt(<<" ", "A">>)}

PhotoStar(spectral_type, color_index) ==
    Star(<<"A", "l", " ", "N", "a">>, None, 0, 0, 30, spectral_type, color_index)

PhotoStars ==
    {PhotoStar(sp, ci) : sp \in PhotoSpectralTypes, ci \in PhotoColors}

\* the stars whose photometric file is written
Tm33Stars ==
    {PhotoStar(Txt(<<"M", "5">>), None), PhotoStar(Txt(<<>>), Some(0)),
     get_fallback_stars[1]}

\* temperatures generate_star_spectrum is called with
PhotoTemperatures ==
    {-5000, -1, 0, 1, 26, 27, 30, 100, 3000, 5500, 35000, 100000}

\* CCTs and wattages the LED routines are called with
PhotoCcts ==
    {-14500, -5000, -1000, 0, 1000, 2000, 2221, 2222, 2700, 3000, 3500, 3999,
     4000, 4001, 5000, 5700, 6500, 10000, 20000}

PhotoWattages == {0, 30, 50}

PhotoInputs ==
    {<<"temperature", star>> : star \in PhotoStars}
    \cup {<<"generate_star_spectrum", t>> : t \in PhotoTemperatures}
    \cup {<<"generate_tm33_for_star", star>> : star \in Tm33Stars}
    \cup {<<fn, cct>> : fn \in {"generate_fake_spectrum", "generate_tm30_values",
                                "generate_cie_xy", "generate_fake_photometry"},
                        cct \in PhotoCcts}
    \cup {<<"generate_iesxml_content", cct, wattage>> :
             cct \in PhotoCcts, wattage \in PhotoWattages}

\* the arguments of the call are drawn here
InitPhoto ==
    /\ clock = 0
    /\ firstCall = NoCall
    /\ \E inp \in PhotoInputs : lastCall = Pending(inp)
    /\ IdleCat /\ IdleSky /\ IdleAec /\ IdleRun

\* a call of fn returning out
PhotoCall(fn, out) ==
    /\ lastCall.inp[1] = fn
    /\ lastCall' = [some |-> TRUE, inp |-> lastCall.inp, out |-> out,
                    at |-> clock]
    /\ firstCall' = IF lastCall.some THEN lastCall ELSE firstCall
    /\ UNCHANGED <<catVars, clock, skyVars, aecVars, script, pc>>

CallTemperature ==
    PhotoCall("temperature", temperature(lastCall.inp[2]))

CallStarSpectrum ==
    PhotoCall("generate_star_spectrum", generate_star_spectrum(lastCall.inp[2]))

CallTm33 ==
    PhotoCall("generate_tm33_for_star",
              generate_tm33_for_star(lastCall.inp[2], clock))

CallFakeSpectrum ==
    PhotoCall("generate_fake_spectrum", generate_fake_spectrum(lastCall.inp[2]))

CallTm30 ==
    PhotoCall("generate_tm30_values", generate_tm30_values(lastCall.inp[2]))

CallCieXy ==
    PhotoCall("generate_cie_xy", generate_cie_xy(lastCall.inp[2]))

CallPhotometry ==
    PhotoCall("generate_fake_photometry",
              generate_fake_photometry(lastCall.inp[2]))

CallIesxml ==
    PhotoCall("generate_iesxml_content",
              generate_iesxml_content(lastCall.inp[2], lastCall.inp[3]))

NextPhoto ==
    \/ CallTemperature \/ CallStarSpectrum \/ CallTm33 \/ CallFakeSpectrum
    \/ CallTm30 \/ CallCieXy \/ CallPhotometry \/ CallIesxml \/ Tick

SpecPhoto == InitPhoto /\ [][NextPhoto]_vars

(***************************************************************************)
(* Spec: one run of a script.  astral_sky_demo.py builds the sky archive   *)
(* from the catalogue; enrich_aec_gldf.py builds the two AEC archives from *)
(* the input archive.                                                      *)
(***************************************************************************)
SkyRow(proper, hip, dec) ==
    [BaseRow EXCEPT !["proper"] = Txt(proper), !["hip"] = Txt(hip),
                    !["dec"] = Txt(dec)]

\* rows of stars that stay above the horizon of the observer below, one
\* (declination -60) that never rises and one (declination 37) that is on
\* the horizon at the instant observed; the last is as bright as the Sun
SkyRows ==
    {SkyRow(<<"V", "e", "g", "a">>, <<"3">>, <<"6", "0">>),
     SkyRow(<<"v", "e", "g", "a">>, <<"4">>, <<"6", "0">>),
     SkyRow(<<"a", " ", "b">>, <<"5">>, <<"6", "0">>),
     SkyRow(<<"a", "-", "b">>, <<"6">>, <<"6", "0">>),
     SkyRow(<<>>, <<"3">>, <<"6", "0">>),
     SkyRow(<<"3", "C">>, <<"8">>, <<"6", "0">>),
     SkyRow(<<"?">>, <<"9">>, <<"6", "0">>),
     SkyRow(<<"V", "e", "g", "a">>, <<>>, <<"6", "0">>),
     SkyRow(<<"V", "e", "g", "a">>, <<"3">>, <<"-", "6", "0">>),
     SkyRow(<<"R", "i", "m">>, <<"2">>, <<"3", "7">>),
     [SkyRow(<<"S", "o", "l">>, <<"1">>, <<"6", "0">>)
         EXCEPT !["mag"] = Txt(<<"-", "2", "6", ".", "7">>)]}

\* catalogues of distinct entries
SkyCatalogues ==
    {NoCatalogue}
    \cup {[exists |-> TRUE, rows |-> rows] :
            rows \in {r \in SeqsUpTo(SkyRows, MaxRows) :
                        \A i, j \in 1..Len(r) : r[i] = r[j] => i = j}}

\* the viewer files found on disk
Disks ==
    {{},
     {"starsky/pkg", "gldf_starsky_wasm.js", "gldf_starsky_wasm_bg.wasm"},
     {"starsky/pkg", "gldf_starsky_wasm.js", "gldf_starsky_wasm_bg.wasm",
      "acadlisp/dist", "acadlisp-1.js", "acadlisp-1_bg.wasm",
      "xlisp.js", "xlisp.wasm"}}

\* the arguments of main's call: Luedinghausen, the default limits and a
\* limit no star passes
SkyInputs ==
    {[lat |-> 51770, lng |-> 7440, time |-> 0, mag_limit |-> m,
      json_mag_limit |-> 6500, disk |-> d] : m \in {500, 4000}, d \in Disks}

\* where the allocator may put the first Star object
Heaps == {4096, 8192}

\* the input archive: absent, or holding some of the entries the
\* generators read
InputEntries ==
    <<Entry("product.xml", "xml"), Entry("geometry/model.l3d", "l3d"),
      Entry("ldc/photometry.ldt", "ldt"), Entry("image/product.jpg", "jpg")>>

InArchives ==
    {NoFile}
    \cup {Archive(SelectSeq(InputEntries, LAMBDA e : e.name \in keep)) :
            keep \in SUBSET {"geometry/model.l3d", "ldc/photometry.ldt",
                             "image/product.jpg"}}

\* an output archive left by an earlier run
OldFile == Archive(<<Entry("product.xml", "old")>>)

InitSky ==
    /\ script = "sky" /\ pc = "start"
    /\ catalogue \in SkyCatalogues /\ loads = <<>>
    /\ skyIn \in SkyInputs /\ skyOut = <<>>
    /\ clock = 0
    /\ IdleAz /\ IdleAec

InitAec ==
    /\ script = "aec" /\ pc = "start"
    /\ inArchive \in InArchives
    /\ outFiles \in [{"enriched", "spectral"} -> {NoFile, OldFile}]
    /\ aecOut = <<>>
    /\ clock = 0
    /\ IdleCat /\ IdleAz /\ IdleSky

Init == InitSky \/ InitAec

\* main of astral_sky_demo.py: one call of generate_gldf_for_sky
GenerateSky ==
    /\ script = "sky" /\ pc = "start"
    /\ \E heap \in Heaps :
          skyOut' = generate_gldf_for_sky(catalogue, skyIn.lat, skyIn.lng,
                        skyIn.time, skyIn.mag_limit, skyIn.json_mag_limit,
                        skyIn.disk, clock, heap)
    /\ pc' = "done"
    /\ UNCHANGED <<catVars, clock, azVars, skyIn, aecVars, script>>

AecCall(fn, r) == [fn |-> fn, outcome |-> r.outcome, ret |-> r.ret, at |-> clock]

GenerateEnriched ==
    /\ script = "aec" /\ Len(aecOut) < MaxCalls
    /\ LET r == generate_enriched_gldf(inArchive, outFiles["enriched"], clock)
       IN  /\ outFiles' = [outFiles EXCEPT !["enriched"] = r.file]
           /\ aecOut' = Append(aecOut, AecCall("enriched", r))
    /\ UNCHANGED <<catVars, clock, azVars, skyVars, inArchive, script, pc>>

GenerateSpectral ==
    /\ script = "aec" /\ Len(aecOut) < MaxCalls
    /\ LET r == generate_spectral_gldf(inArchive, outFiles["spectral"], clock)
       IN  /\ outFiles' = [outFiles EXCEPT !["spectral"] = r.file]
           /\ aecOut' = Append(aecOut, AecCall("spectral", r))
    /\ UNCHANGED <<catVars, clock, azVars, skyVars, inArchive, script, pc>>

Next == GenerateSky \/ GenerateEnriched \/ GenerateSpectral \/ Tick

Spec == Init /\ [][Next]_vars

(***************************************************************************)
(* SpecId: star_to_id called again and again on Star objects of one name   *)
(* and one catalogue id; each call is handed an object at an address the   *)
(* allocator chose.                                                        *)
(***************************************************************************)
MaxNameLen == 3    \* characters in a star name

\* an upper-case and a lower-case letter, a digit, the characters replaced
\* or kept by the substitution, and one that is removed
NameChars == {"V", "a", "3", "_", "-", " ", "*"}

IdNames == SeqsUpTo(NameChars, MaxNameLen)

IdHips == {None, Some(0), Some(7)}

\* where a Star object may lie
IdAddrs == {Addr(heap, i) : heap \in Heaps, i \in 1..2}

IdStar(name, hip_id) == Star(name, hip_id, 0, 0, 0, Txt(<<>>), None)

InitId ==
    /\ clock = 0
    /\ firstCall = NoCall
    /\ \E name \in IdNames, hip_id \in IdHips :
          lastCall = Pending(<<name, hip_id>>)
    /\ IdleCat /\ IdleSky /\ IdleAec /\ IdleRun

CallStarToId ==
    /\ \E addr \in IdAddrs :
          lastCall' = [some |-> TRUE,
                       inp  |-> lastCall.inp,
                       out  |-> [id    |-> star_to_id(IdStar(lastCall.inp[1],
                                                            lastCall.inp[2]), addr),
                                 chars |-> StarIdChars(IdStar(lastCall.inp[1],
                                                              lastCall.inp[2]), addr)],
                       at   |-> clock]
    /\ firstCall' = IF lastCall.some THEN lastCall ELSE firstCall
    /\ UNCHANGED <<catVars, clock, skyVars, aecVars, script, pc>>

NextId == CallStarToId \/ Tick

SpecId == InitId /\ [][NextId]_vars

(***************************************************************************)
(* SpecViewers: embed_wasm_viewers run on a disk holding some of the       *)
(* viewer folders and files.                                               *)
(***************************************************************************)
\* the two folders, and the files looked for in them
ViewerFolders == {"starsky/pkg", "acadlisp/dist"}

StarskyFiles == {"gldf_starsky_wasm.js", "gldf_starsky_wasm_bg.wasm"}

AcadlispFiles == {"acadlisp-1.js", "acadlisp-1_bg.wasm", "xlisp.js", "xlisp.wasm"}

\* a file is on disk only inside its folder
ViewerDisks ==
    {d \in SUBSET (ViewerFolders \cup StarskyFiles \cup AcadlispFiles) :
        /\ (d \cap StarskyFiles # {}) => "starsky/pkg" \in d
        /\ (d \cap AcadlispFiles # {}) => "acadlisp/dist" \in d}

InitViewers ==
    /\ clock = 0
    /\ firstCall = NoCall
    /\ \E disk \in ViewerDisks : lastCall = Pending(<<disk>>)
    /\ IdleCat /\ IdleSky /\ IdleAec /\ IdleRun

EmbedViewers ==
    /\ lastCall' = [some |-> TRUE,
                    inp  |-> lastCall.inp,
                    out  |-> embed_wasm_viewers(lastCall.inp[1]),
                    at   |-> clock]
    /\ firstCall' = IF lastCall.some THEN lastCall ELSE firstCall
    /\ UNCHANGED <<catVars, clock, skyVars, aecVars, script, pc>>

NextViewers == EmbedViewers \/ Tick

SpecViewers == InitViewers /\ [][NextViewers]_vars

(***************************************************************************)
(* Claims about the composed documents (Spec).                             *)
(***************************************************************************)
SkyEmitted == script = "sky" /\ pc = "done" /\ skyOut.outcome = "returned"

Emitted(fn) ==
    /\ script = "aec"
    /\ \E i \in 1..Len(aecOut) : aecOut[i].fn = fn /\ aecOut[i].outcome = "returned"

DocOf(entries) == entries[1].data.doc

\* the documents written so far
EmittedDocs ==
    (IF SkyEmitted THEN {DocOf(skyOut.archive)} ELSE {})
    \cup {DocOf(outFiles[fn].entries) : fn \in {f \in {"enriched", "spectral"} : Emitted(f)}}

Defined(doc) == {<<doc[j].kind, doc[j].id>> : j \in 1..Len(doc)}

Resolves(doc) ==
    LET defined == Defined(doc)
    IN  \A i \in 1..Len(doc) : \A r \in doc[i].refs :
            <<TargetKind(r.attr), r.to>> \in defined

\* C1: in every document generate_gldf_for_sky, generate_enriched_gldf and
\* generate_spectral_gldf emit, each reference an element carries (to a
\* file, photometry, light source, spectrum, geometry or emitter) names the
\* id of an element of that kind defined in the same document.
C1_ReferencesResolve == \A doc \in EmittedDocs : Resolves(doc)

\* both AEC documents are written, with their emitter, variant and spectrum
\* references in them
C1_Witness ==
    /\ Emitted("enriched") /\ Emitted("spectral")
    /\ \E i \in 1..Len(DocOf(outFiles["spectral"].entries)) :
          DocOf(outFiles["spectral"].entries)[i].refs # {}

\* the ids the visible stars are given, in order
VisibleIds(heap) == StarIds(skyOut.visible, heap)

DuplicateStarIds ==
    \E heap \in Heaps : \E i, j \in 1..Len(skyOut.visible) :
        i # j /\ VisibleIds(heap)[i] = VisibleIds(heap)[j]

\* no two elements of one kind share an id
UniqueIdsPerKind(doc) ==
    \A i, j \in 1..Len(doc) :
        (doc[i].kind = doc[j].kind /\ doc[i].id = doc[j].id) => i = j

\* the archive entry the i-th File element names holds the photometric file
\* written from the i-th visible star
OwnPhotometricFile(i) ==
    \E k \in 1..Len(skyOut.archive) :
        /\ skyOut.archive[k].name = "ldc/" \o DocOf(skyOut.archive)[i].name
        /\ skyOut.archive[k].data =
              generate_tm33_for_star(skyOut.visible[i][1],
                                     skyOut.archive[1].data.timestamp)

\* C3: when two visible stars are given the same identifier by star_to_id,
\* generate_gldf_for_sky returns no archive: a returned archive never has
\* two File, Photometry, FixedLightSource, Emitter or Variant elements with
\* one id, and holds for every visible star the photometric file written
\* from that star.
C3_DuplicateIdsRejected ==
    SkyEmitted =>
        /\ ~DuplicateStarIds
        /\ UniqueIdsPerKind(DocOf(skyOut.archive))
        /\ \A i \in 1..Len(skyOut.visible) : OwnPhotometricFile(i)

UniqueIds(doc) == Cardinality({doc[i].id : i \in 1..Len(doc)}) = Len(doc)

\* C4: in the enriched and the spectral document no two elements (File,
\* Photometry, Spectrum, FixedLightSource, Emitter, ModelGeometry, Variant)
\* share an id.
C4_IdsUnique ==
    \A fn \in {"enriched", "spectral"} :
        Emitted(fn) => UniqueIds(DocOf(outFiles[fn].entries))

(***************************************************************************)
(* Claims about the catalogue loader (SpecCat).                            *)
(***************************************************************************)
Call(i) == loads[i]

\* C5: every star get_stars(mag_limit) returns has mag <= mag_limit, from
\* the catalogue file and from the fallback list alike.
C5_MagnitudeCeiling ==
    \A i \in 1..Len(loads) :
        Call(i).outcome = "returned" =>
            \A j \in 1..Len(Call(i).stars) :
                FloatLE(Call(i).stars[j].mag, Call(i).mag_limit)

\* the required fields of a row are present and numeric and its magnitude
\* is at most the ceiling
RequiredOk(row, m) ==
    /\ FloatField(row, "mag").tag = "ok"
    /\ FloatField(row, "ra").tag = "ok"
    /\ FloatField(row, "dec").tag = "ok"
    /\ FloatLE(FloatField(row, "mag").v, m)

ExpectedRows(m) == SelectSeq(catalogue.rows, LAMBDA r : RequiredOk(r, m))

\* C6: on any sequence of catalogue rows load_hyg_catalogue returns without
\* raising, and returns in catalogue order exactly the rows whose required
\* fields (mag, ra, dec) are present and numeric and whose magnitude is at
\* most the ceiling.
C6_OnlyMalformedRowsDropped ==
    \A i \in 1..Len(loads) :
        catalogue.exists =>
            /\ Call(i).outcome = "returned"
            /\ Len(Call(i).stars) = Len(ExpectedRows(Call(i).mag_limit))
            /\ \A j \in 1..Len(Call(i).stars) :
                  LET row == ExpectedRows(Call(i).mag_limit)[j]
                      st  == Call(i).stars[j]
                  IN  /\ st.mag = FloatField(row, "mag").v
                      /\ st.ra = FloatTimes(FloatField(row, "ra").v, 15)
                      /\ st.dec = FloatField(row, "dec").v

\* C7: with no catalogue file, every call returns, without raising, the
\* same fixed list of 15 bright stars, whatever the magnitude ceiling.
C7_FallbackList ==
    \A i \in 1..Len(loads) :
        ~catalogue.exists =>
            /\ Call(i).outcome = "returned"
            /\ Len(Call(i).stars) = 15
            /\ \A j \in 1..Len(Call(i).stars) :
                  /\ Call(i).stars[j].name = BRIGHT_STARS[j][1]
                  /\ Call(i).stars[j].ra = BRIGHT_STARS[j][2]
                  /\ Call(i).stars[j].dec = BRIGHT_STARS[j][3]
                  /\ Call(i).stars[j].mag = BRIGHT_STARS[j][4]
            /\ Call(i).stars = Call(1).stars

\* two calls with different ceilings, one below the magnitude of Polaris,
\* were made with the catalogue file missing
C7_Witness ==
    /\ ~catalogue.exists
    /\ Len(loads) = 2
    /\ Call(1).mag_limit = 0
    /\ Call(2).mag_limit # 0
    /\ Call(1).outcome = "returned"

\* C8: every star the loader returns has its right ascension in [0, 360)
\* degrees and its declination in [-90, 90].
C8_PositionInDomain ==
    \A i \in 1..Len(loads) :
        \A j \in 1..Len(Call(i).stars) :
            /\ FloatGE(Call(i).stars[j].ra, 0)
            /\ FloatLT(Call(i).stars[j].ra, 360 * Milli)
            /\ FloatGE(Call(i).stars[j].dec, -90 * Milli)
            /\ FloatLE(Call(i).stars[j].dec, 90 * Milli)

(***************************************************************************)
(* Claims about the horizon transform (SpecAltAz, SpecRerun).              *)
(***************************************************************************)
\* C9: for a star, an observer and an instant of the valid domain the
\* approximate transform returns, without raising, an altitude in [-90, 90]
\* and an azimuth in [0, 360), 360 excluded.
C9_AltAzInRange ==
    lastCall.some =>
        /\ lastCall.out.outcome = "returned"
        /\ lastCall.out.alt >= -90 * Milli
        /\ lastCall.out.alt <= 90 * Milli
        /\ lastCall.out.az >= 0
        /\ lastCall.out.az < 360 * Milli

LoadedStars == get_stars(catalogue, skyIn.mag_limit).stars

Altitude(star) ==
    calculate_alt_az(star, skyIn.lat, skyIn.lng, skyIn.time).alt

\* the loaded stars whose computed altitude is greater than 0
Risen == SelectSeq(LoadedStars, LAMBDA s : Altitude(s) > 0)

StarKinds ==
    [File |-> "file_", Photometry |-> "photometry_",
     FixedLightSource |-> "lightsource_", Emitter |-> "emitter_",
     Variant |-> "variant_"]

OfKind(doc, kind) == SelectSeq(doc, LAMBDA e : e.kind = kind)

\* the names of the ldc/ entries: those written between product.xml and
\* other/sky_data.json
LdcNames ==
    LET a == skyOut.archive
        j == CHOOSE k \in 1..Len(a) : a[k].name = "other/sky_data.json"
    IN  {a[k].name : k \in 2..(j - 1)}

\* the document holds, kind by kind, one element per risen star and no
\* other, and the archive one ldc/ entry under each risen star's id and no
\* other
HoldsExactly(stars, heap) ==
    /\ \A kind \in DOMAIN StarKinds :
          LET els == OfKind(DocOf(skyOut.archive), kind)
          IN  /\ Len(els) = Len(stars)
              /\ \A i \in 1..Len(stars) :
                    els[i].id = StarKinds[kind] \o star_to_id(stars[i], Addr(heap, i))
    /\ LdcNames = {"ldc/" \o star_to_id(stars[i], Addr(heap, i)) \o ".iesxml" :
                      i \in 1..Len(stars)}

Called(fn) == lastCall.some /\ lastCall.inp[1] = fn

\* 81 samples at 380, 385, ..., 780 nm in ascending order
OnGrid(spectrum) ==
    /\ Len(spectrum) = 81
    /\ \A i \in 1..Len(spectrum) : spectrum[i].wl = 380 + 5 * (i - 1)

\* a star spectrum's values: none negative, and the greatest 1.0 unless all
\* are 0
StarValuesNormalized(spectrum) ==
    /\ \A i \in 1..Len(spectrum) : spectrum[i].v.sgn >= 0
    /\ \/ \A i \in 1..Len(spectrum) : spectrum[i].v = FltZero
       \/ /\ \E i \in 1..Len(spectrum) : spectrum[i].v = Flt(1, 0)
          /\ \A i \in 1..Len(spectrum) : spectrum[i].v.ln <= 0

\* an LED spectrum's values, likewise
LedValuesNormalized(spectrum) ==
    /\ \A i \in 1..Len(spectrum) : spectrum[i].v >= 0
    /\ \/ \A i \in 1..Len(spectrum) : spectrum[i].v = 0
       \/ /\ \E i \in 1..Len(spectrum) : spectrum[i].v = Micro
          /\ \A i \in 1..Len(spectrum) : spectrum[i].v <= Micro

\* C12: for every positive temperature generate_star_spectrum, and for
\* every positive CCT generate_fake_spectrum, returns exactly 81 samples at
\* 380, 385, ..., 780 nm in ascending order, every value at least 0 and the
\* greatest value 1.0 unless all values are 0.
C12_SpectrumShape ==
    /\ (Called("generate_star_spectrum") /\ lastCall.inp[2] > 0)
          => OnGrid(lastCall.out) /\ StarValuesNormalized(lastCall.out)
    /\ (Called("generate_fake_spectrum") /\ lastCall.inp[2] > 0)
          => /\ lastCall.out.tag = "ok"
             /\ OnGrid(lastCall.out.v)
             /\ LedValuesNormalized(lastCall.out.v)

\* the spectrum of a cold body: samples cut to 0 beside the sample of 1.0
C12_Witness ==
    /\ Called("generate_star_spectrum") /\ lastCall.inp[2] > 0
    /\ \E i, j \in 1..Len(lastCall.out) :
          lastCall.out[i].v = FltZero /\ lastCall.out[j].v = Flt(1, 0)

\* C13: for every integer temperature, 0 and the negative ones included,
\* generate_star_spectrum returns a curve on the 81-sample grid with no
\* negative value: a sample whose exponent exceeds 700 or whose evaluation
\* would divide by zero is 0, and when no sample is positive the curve is
\* all zeros.
C13_NeverNegative ==
    Called("generate_star_spectrum") =>
        /\ OnGrid(lastCall.out)
        /\ \A i \in 1..Len(lastCall.out) : lastCall.out[i].v.sgn >= 0
        /\ (\A i \in 1..Len(lastCall.out) : lastCall.out[i].v.sgn <= 0)
              => \A i \in 1..Len(lastCall.out) : lastCall.out[i].v = FltZero

\* the temperature of a spectral type by its leading letter, either case
TemperatureOfClass(spectral_type) ==
    IF ~spectral_type.present \/ spectral_type.s = <<>> THEN 5500
    ELSE IF spectral_type.s[1] \in {"O", "o"} THEN 35000
    ELSE IF spectral_type.s[1] \in {"B", "b"} THEN 20000
    ELSE IF spectral_type.s[1] \in {"A", "a"} THEN 9000
    ELSE IF spectral_type.s[1] \in {"F", "f"} THEN 7000
    ELSE IF spectral_type.s[1] \in {"G", "g"} THEN 5500
    ELSE IF spectral_type.s[1] \in {"K", "k"} THEN 4500
    ELSE IF spectral_type.s[1] \in {"M", "m"} THEN 3200
    ELSE 5500

\* C14: Star.temperature uses the colour index whenever the star has one,
\* a colour index of 0.0 included, and then does not depend on the spectral
\* type; without a colour index it is the temperature of the leading letter
\* of the upper-cased spectral type (O 35000, B 20000, A 9000, F 7000,
\* G 5500, K 4500, M 3200), and 5500 when the spectral type is empty or
\* begins with any other character.
C14_TemperatureSource ==
    Called("temperature") =>
        IF lastCall.inp[2].color_index.some
        THEN \A sp \in PhotoSpectralTypes :
                lastCall.out =
                    temperature([lastCall.inp[2] EXCEPT !.spectral_type = sp])
        ELSE lastCall.out = TemperatureOfClass(lastCall.inp[2].spectral_type)

\* a star of class O with colour index 0.0: the temperature is the colour
\* index's, not the class's
C14_Witness ==
    /\ Called("temperature")
    /\ lastCall.inp[2].color_index = Some(0)
    /\ lastCall.inp[2].spectral_type = Txt(<<"O", "5">>)
    /\ lastCall.out = 7500

\* C15: for every integer CCT, the five configured ones or any other,
\* generate_tm30_values returns integers Rf in [70, 95] and Rg in [95, 108],
\* and the same pair on every call.
C15_Tm30InRange ==
    Called("generate_tm30_values") =>
        /\ lastCall.out[1] \in 70..95
        /\ lastCall.out[2] \in 95..108
        /\ firstCall.some => firstCall.out = lastCall.out

\* two calls, a tick apart, with a CCT whose Rg is held at the lower limit
C15_Witness ==
    /\ Called("generate_tm30_values")
    /\ lastCall.inp[2] = 20000
    /\ firstCall.some /\ firstCall.at < lastCall.at
    /\ lastCall.out[2] = 95

\* 1000 / cct, cct # 0
KiloPerCct(cct) == IF cct < 0 THEN -DivFix(1000, -cct) ELSE DivFix(1000, cct)

\* the x polynomials below 4000 K and from 4000 K on
XWarm(cct) == Poly(KiloPerCct(cct), -266124, -234359, 877696, 179910)
XCool(cct) == Poly(KiloPerCct(cct), -3025847, 2107038, 222635, 240390)

\* the y polynomials below 2222 K, from there to 4000 K, and from 4000 K on
YLow(x)  == Poly(x, -1106381, -1348110, 2185558, -202197)
YMid(x)  == Poly(x, -954948, -1374186, 2091370, -167489)
YHigh(x) == Poly(x, 3081758, -5873387, 3751130, -370015)

Near(v, target) == Abs(v - target) <= 100

\* C16: generate_cie_xy takes the x polynomial by CCT < 4000 against
\* CCT >= 4000 and the y polynomial by CCT < 2222, 2222 <= CCT < 4000 and
\* CCT >= 4000, rounds both coordinates to 4 decimals, and gives a point
\* within 0.01 of (0.31, 0.32) for 6500 K and within 0.01 of (0.44, 0.40)
\* for 3000 K.
C16_CieBranches ==
    (Called("generate_cie_xy") /\ lastCall.inp[2] # 0) =>
        /\ lastCall.out.tag = "ok"
        /\ lastCall.out.v[1] =
              Round4(IF lastCall.inp[2] < 4000 THEN XWarm(lastCall.inp[2])
                     ELSE XCool(lastCall.inp[2]))
        /\ lastCall.out.v[2] =
              Round4(IF lastCall.inp[2] < 2222
                     THEN YLow(XWarm(lastCall.inp[2]))
                     ELSE IF lastCall.inp[2] < 4000
                     THEN YMid(XWarm(lastCall.inp[2]))
                     ELSE YHigh(XCool(lastCall.inp[2])))
        /\ lastCall.inp[2] = 6500
              => Near(lastCall.out.v[1], 3100) /\ Near(lastCall.out.v[2], 3200)
        /\ lastCall.inp[2] = 3000
              => Near(lastCall.out.v[1], 4400) /\ Near(lastCall.out.v[2], 4000)

\* the chromaticity of 6500 K: (0.3135, 0.3237)
C16_Witness ==
    /\ Called("generate_cie_xy")
    /\ lastCall.inp[2] = 6500
    /\ lastCall.out = Ok(<<3135, 3237>>)

\* every entry carries the value, written to one decimal, that the grid
\* holds for the entry's pair of angles
CarriesGrid(data, intensities) ==
    \A k \in 1..Len(data) :
        data[k].v = Fmt1(intensities[(data[k].vert \div 5) + 1]
                                    [(data[k].horz \div 15) + 1])

\* C17: the text generate_iesxml_content returns has exactly 7 x 19 = 133
\* IntensityData entries, one for each horizontal angle of 0, 15, ..., 90
\* and vertical angle of 0, 5, ..., 90, the vertical angles ascending in the
\* outer loop and the horizontal ones ascending within; each entry carries
\* the non-negative value the photometric grid holds for its pair of
\* angles; and it has 81 wavelengths and 81 values in ascending order of
\* wavelength.
C17_IntensityGrid ==
    (Called("generate_iesxml_content") /\ lastCall.out.tag = "ok") =>
        /\ Len(lastCall.out.v.IntensityData) = 133
        /\ \A k \in 1..Len(lastCall.out.v.IntensityData) :
              /\ lastCall.out.v.IntensityData[k].vert = 5 * ((k - 1) \div 7)
              /\ lastCall.out.v.IntensityData[k].horz = 15 * ((k - 1) % 7)
              /\ lastCall.out.v.IntensityData[k].v >= 0
        /\ \A photometry \in {generate_fake_photometry(lastCall.inp[2])} :
              CarriesGrid(lastCall.out.v.IntensityData, photometry.v.intensities)
        /\ Len(lastCall.out.v.Wavelengths) = 81
        /\ Len(lastCall.out.v.Values) = 81
        /\ \A i \in 1..Len(lastCall.out.v.Wavelengths) :
              lastCall.out.v.Wavelengths[i] = 380 + 5 * (i - 1)
        /\ \A spectrum \in {generate_fake_spectrum(lastCall.inp[2])} :
              lastCall.out.v.Values
                  = [i \in 1..81 |-> Fmt4Led(spectrum.v[i].v)]

\* the file of the 3000 K module at 50 W: 1000.0 cd straight down, less on
\* the plane of 15 degrees at 90 degrees from the axis
C17_Witness ==
    /\ Called("generate_iesxml_content") /\ lastCall.out.tag = "ok"
    /\ lastCall.inp[2] = 3000 /\ lastCall.inp[3] = 50
    /\ lastCall.out.v.IntensityData[1].v = 10000
    /\ lastCall.out.v.IntensityData[128].horz = 15
    /\ lastCall.out.v.IntensityData[128].vert = 90
    /\ lastCall.out.v.IntensityData[128].v \in 1..9999

\* C18: photometric-file serialization is reproducible: two calls of
\* generate_iesxml_content with equal (cct, wattage), and two calls of
\* generate_tm33_for_star with equal star data, return identical text
\* whenever each call is made.
Serializers == {"generate_iesxml_content", "generate_tm33_for_star"}

C18_Reproducible ==
    (/\ firstCall.some /\ lastCall.some
     /\ lastCall.inp[1] \in Serializers
     /\ firstCall.inp = lastCall.inp) =>
        firstCall.out = lastCall.out

\* the half of C18 that the code keeps: generate_iesxml_content writes
\* the fixed report date and returns the same text at any time
IesxmlReproducible ==
    (/\ firstCall.some /\ lastCall.some
     /\ lastCall.inp[1] = "generate_iesxml_content"
     /\ firstCall.inp = lastCall.inp) =>
        firstCall.out = lastCall.out

(***************************************************************************)
(* Claims about the two AEC generators run in one script (Spec).           *)
(***************************************************************************)
Generators == {"enriched", "spectral"}

\* what fn returns and writes when it is the only call of the run and no
\* output file exists
Alone(fn) ==
    IF fn = "enriched" THEN generate_enriched_gldf(inArchive, NoFile, 0)
    ELSE generate_spectral_gldf(inArchive, NoFile, 0)

\* an output archive without the creation timestamp of its product.xml
Untimed(file) == [file EXCEPT !.entries[1].data.timestamp = 0]

SameAsAlone(fn) ==
    /\ Len(outFiles[fn].entries) = Len(Alone(fn).file.entries)
    /\ Untimed(outFiles[fn]) = Untimed(Alone(fn).file)
    /\ \A i \in 1..Len(aecOut) :
          aecOut[i].fn = fn =>
              /\ aecOut[i].outcome = Alone(fn).outcome
              /\ aecOut[i].ret = Alone(fn).ret

\* C19: the two generators are independent within one run: neither changes
\* the input archive (the configuration tables are never assigned), and
\* each one's returned counts, document (apart from the creation timestamp)
\* and payloads are those of running it alone, whether it runs first,
\* second or twice.
C19_ModesIndependent ==
    /\ [][inArchive' = inArchive]_vars
    /\ [](\A fn \in Generators : Emitted(fn) => SameAsAlone(fn))

\* spectral ran first and enriched second, at a later time, over an old
\* output file
C19_Witness ==
    /\ script = "aec" /\ Len(aecOut) = 2
    /\ aecOut[1].fn = "spectral" /\ aecOut[1].outcome = "returned"
    /\ aecOut[2].fn = "enriched" /\ aecOut[2].outcome = "returned"
    /\ aecOut[1].at < aecOut[2].at
    /\ DocOf(outFiles["enriched"].entries) = EnrichedDocument
    /\ DocOf(outFiles["spectral"].entries) = SpectralDocument

Ids(els) == {els[i].id : i \in 1..Len(els)}

RefsTo(el, attr) == {r.to : r \in {q \in el.refs : q.attr = attr}}

SharedBase(variants, sources, emitters, photometries, geometries) ==
    /\ Len(variants) = 600
    /\ \A n \in 1..Len(variants) : variants[n].id = "variant_" \o Str(n)
    /\ Len(sources) = 30 /\ Len(emitters) = 30
    /\ Cardinality(Ids(sources)) = 30 /\ Cardinality(Ids(emitters)) = 30
    /\ Len(photometries) = 1 /\ Len(geometries) = 1
    /\ \A i \in 1..Len(emitters) :
          RefsTo(emitters[i], "photometryId") = Ids(photometries)
    /\ \A n \in 1..Len(variants) :
          /\ RefsTo(variants[n], "geometryId") = Ids(geometries)
          /\ Cardinality(RefsTo(variants[n], "emitterId")) = 1
          /\ RefsTo(variants[n], "emitterId") \subseteq Ids(emitters)

\* C20: the enriched document holds exactly 600 Variants variant_1 ..
\* variant_600 in that order, 30 light sources and 30 emitters, one
\* Photometry and one ModelGeometry; every Emitter refers to that
\* Photometry, every Variant to that ModelGeometry and to an Emitter of the
\* document.
C20_SharedBaseDocument ==
    Emitted("enriched") =>
        \A doc \in {DocOf(outFiles["enriched"].entries)} :
        \A variants \in {OfKind(doc, "Variant")},
           sources \in {OfKind(doc, "FixedLightSource")},
           emitters \in {OfKind(doc, "Emitter")},
           photometries \in {OfKind(doc, "Photometry")},
           geometries \in {OfKind(doc, "ModelGeometry")} :
            SharedBase(variants, sources, emitters, photometries, geometries)

C20_Witness ==
    /\ Emitted("enriched")
    /\ Len(DocOf(outFiles["enriched"].entries)) = 4 + 30 + 30 + 1 + 600
    /\ DocOf(outFiles["enriched"].entries)[665].id = "variant_600"
    /\ aecOut[Len(aecOut)].fn = "enriched"
    /\ aecOut[Len(aecOut)].ret = <<600, 30>>

EntryNames(entries) == {entries[i].name : i \in 1..Len(entries)}

CctTag(cct) == Str(cct) \o "K"

\* the emitter refers to the Photometry of the colour temperature whose
\* Spectrum its light source refers to
SameCct(emitter, sources) ==
    \E k \in 1..Len(sources), i \in 1..Len(CCTS) :
        /\ RefsTo(emitter, "fixedLightSourceId") = {sources[k].id}
        /\ sources[k].id \in {"led_" \o Str(w) \o "W_" \o CctTag(CCTS[i]) :
                                 w \in {WATTAGES[j] : j \in 1..Len(WATTAGES)}}
        /\ RefsTo(sources[k], "spectrumId") = {"spectrum_" \o CctTag(CCTS[i])}
        /\ RefsTo(emitter, "photometryId") = {"photometry_" \o CctTag(CCTS[i])}

PerCct(files, photometries, sources, emitters, entries) ==
    /\ Len(photometries) = 5
    /\ \A i \in 1..5 :
          /\ photometries[i].id = "photometry_" \o CctTag(CCTS[i])
          /\ RefsTo(photometries[i], "fileId") = {"photometry_" \o CctTag(CCTS[i])}
    /\ {<<files[i].id, files[i].contentType, files[i].name>> : i \in 1..Len(files)}
         = {<<"geometry_file", "geometry/l3d", "model.l3d">>,
            <<"image_file", "image/jpg", "product.jpg">>}
           \cup {<<"photometry_" \o CctTag(CCTS[i]), "ldc/iesxml",
                    "GA15_" \o CctTag(CCTS[i]) \o ".iesxml">> : i \in 1..5}
    /\ Len(files) = 7
    /\ Len(emitters) > 0
    /\ \A i \in 1..Len(emitters) : SameCct(emitters[i], sources)
    /\ Len(entries) = 8
    /\ EntryNames(entries)
         = {"product.xml", "geometry/model.l3d", "image/product.jpg"}
           \cup {"ldc/GA15_" \o CctTag(CCTS[i]) \o ".iesxml" : i \in 1..5}

\* C21: the spectral document defines one Photometry, one File and one
\* ldc/GA15_<cct>K.iesxml payload for each of the 5 configured CCTs, every
\* Emitter refers to the Photometry of the CCT of its light source, and no
\* File of the document and no entry of the archive is a legacy .ldt file.
C21_PerCctPhotometry ==
    Emitted("spectral") =>
        \A entries \in {outFiles["spectral"].entries} :
        \A doc \in {DocOf(entries)} :
        \A files \in {OfKind(doc, "File")},
           photometries \in {OfKind(doc, "Photometry")},
           sources \in {OfKind(doc, "FixedLightSource")},
           emitters \in {OfKind(doc, "Emitter")} :
            PerCct(files, photometries, sources, emitters, entries)

C21_Witness ==
    /\ Emitted("spectral")
    /\ Len(CCTS) = 5
    /\ Len(OfKind(DocOf(outFiles["spectral"].entries), "Emitter")) = 15
    /\ outFiles["spectral"].entries[8].name = "ldc/GA15_6500K.iesxml"
    /\ outFiles["spectral"].entries[8].data.FixedCCT = 6500

(***************************************************************************)
(* What the written archives hold (Spec).                                  *)
(***************************************************************************)
\* the folder of a content type: the part before the slash
Folder(contentType) ==
    CASE contentType \in {"ldc/iesxml", "ldc/eulumdat"} -> "ldc"
      [] contentType = "geometry/l3d" -> "geometry"
      [] contentType = "image/jpg" -> "image"

NamesOnce(entries) == Cardinality(EntryNames(entries)) = Len(entries)

\* every File element names an entry under the folder of its content type
FilesPresent(files, entries) ==
    \A i \in 1..Len(files) :
        (Folder(files[i].contentType) \o "/" \o files[i].name)
            \in EntryNames(entries)

\* the entry of that name holds the bytes the input archive holds under it
CopiedUnchanged(entries, name) ==
    \E k \in 1..Len(entries), j \in 1..Len(inArchive.entries) :
        /\ entries[k].name = name /\ inArchive.entries[j].name = name
        /\ entries[k].data = inArchive.entries[j].data

EnrichedArchive(entries) ==
    /\ entries[1].name = "product.xml"
    /\ NamesOnce(entries)
    /\ EntryNames(entries) = {"product.xml", "geometry/model.l3d",
                              "ldc/photometry.ldt", "image/product.jpg"}
    /\ FilesPresent(OfKind(DocOf(entries), "File"), entries)
    /\ \A name \in EntryNames(entries) \ {"product.xml"} :
          CopiedUnchanged(entries, name)

SpectralArchive(entries) ==
    /\ entries[1].name = "product.xml"
    /\ NamesOnce(entries)
    /\ Len(entries) = Len(CCTS) + 3
    /\ FilesPresent(OfKind(DocOf(entries), "File"), entries)
    /\ CopiedUnchanged(entries, "geometry/model.l3d")
    /\ CopiedUnchanged(entries, "image/product.jpg")
    /\ \A i \in 1..Len(CCTS) :
          \E k \in 1..Len(entries) :
              /\ entries[k].name = "ldc/GA15_" \o CctTag(CCTS[i]) \o ".iesxml"
              /\ entries[k].data = SpectralFiles[i]
              /\ entries[k].data.FixedCCT = CCTS[i]

SkyArchiveHolds(entries, ids) ==
    /\ entries[1].name = "product.xml"
    /\ NamesOnce(entries)
    /\ FilesPresent(OfKind(DocOf(entries), "File"), entries)
    /\ {"other/sky_data.json", "other/autolisp/star_sky.lsp"}
           \subseteq EntryNames(entries)
    /\ LdcNames = {"ldc/" \o ids[i] \o ".iesxml" : i \in 1..Len(ids)}
    /\ \A k \in 1..Len(entries) :
          entries[k].name \in LdcNames =>
              \E i \in 1..Len(ids) :
                  /\ entries[k].name = "ldc/" \o ids[i] \o ".iesxml"
                  /\ entries[k].data =
                        generate_tm33_for_star(skyOut.visible[i][1],
                                               entries[1].data.timestamp)

\* C22: each written archive has product.xml first and once, no entry name
\* twice, one entry for every payload handed to the writer and none
\* missing; every File element names an entry under the folder of its
\* content type; an entry copied from the input archive holds the input's
\* bytes and a photometric entry the text generated for it.
C22_ArchiveHoldsPayloads ==
    /\ Emitted("enriched") =>
          \A entries \in {outFiles["enriched"].entries} : EnrichedArchive(entries)
    /\ Emitted("spectral") =>
          \A entries \in {outFiles["spectral"].entries} : SpectralArchive(entries)
    /\ SkyEmitted =>
          \E heap \in Heaps :
              \A ids \in {VisibleIds(heap)} : SkyArchiveHolds(skyOut.archive, ids)

\* the three input payloads copied by the enriched generator, and a sky
\* archive with a photometric file
C22_Witness ==
    \/ /\ Emitted("enriched") /\ Emitted("spectral")
       /\ Len(outFiles["enriched"].entries) = 4
       /\ outFiles["enriched"].entries[3].data = "ldt"
       /\ Len(inArchive.entries) = 3
    \/ /\ SkyEmitted /\ Len(skyOut.visible) = 2 /\ Cardinality(LdcNames) = 2

(***************************************************************************)
(* Claims about star_to_id (SpecId).                                       *)
(***************************************************************************)
IsLetter(c) == \E i \in 1..26 : Lower[i] = c

\* C23: for every star name star_to_id returns a valid XML id: a non-empty
\* string of lower-case letters, digits and underscores that starts with a
\* letter.
C23_ValidXmlId ==
    lastCall.some =>
        /\ lastCall.out.chars # <<>>
        /\ \A i \in 1..Len(lastCall.out.chars) : IsSafeChar(lastCall.out.chars[i])
        /\ IsLetter(lastCall.out.chars[1])

\* what the code does keep: the id is never empty, has only lower-case
\* letters, digits and underscores, and never starts with a digit
IdSafeChars ==
    lastCall.some =>
        /\ lastCall.out.chars # <<>>
        /\ \A i \in 1..Len(lastCall.out.chars) : IsSafeChar(lastCall.out.chars[i])
        /\ ~IsDigit(lastCall.out.chars[1])

\* C24: star_to_id is stable: two Star values of equal name and catalogue id
\* are given the same identifier, on every call, also when the name reduces
\* to the empty string and the star has no catalogue id.
C24_StableId ==
    (firstCall.some /\ lastCall.some /\ firstCall.inp = lastCall.inp) =>
        firstCall.out.id = lastCall.out.id

\* what the code does keep: a star whose name leaves a character, or that
\* has a non-zero catalogue id, is given the same identifier on every call
StableWhenNamed ==
    (/\ firstCall.some /\ lastCall.some /\ firstCall.inp = lastCall.inp
     /\ \/ lastCall.inp[2].some /\ lastCall.inp[2].v # 0
        \/ \E i \in 1..Len(lastCall.inp[1]) :
               IsSafeChar(LowerChar(lastCall.inp[1][i]))
               \/ lastCall.inp[1][i] = "-") =>
        firstCall.out.id = lastCall.out.id

(***************************************************************************)
(* Degenerate inputs of the LED routines (SpecPhoto).                      *)
(***************************************************************************)
\* the LED routines that report how they ended; generate_tm30_values has no
\* division and always returns
MayRaise == {"generate_fake_spectrum", "generate_cie_xy",
             "generate_fake_photometry", "generate_iesxml_content"}

\* C25: for every integer CCT, 0 and negative values included, and every
\* wattage, the LED radiometric routines return a result and do not raise.
C25_NeverRaises ==
    (lastCall.some /\ lastCall.inp[1] \in MayRaise) => lastCall.out.tag = "ok"

\* what the code does keep: the only colour temperatures of the modelled
\* set at which a routine raises are 0, -5000 and -14500
RaisesOnlyAtPoles ==
    (lastCall.some /\ lastCall.inp[1] \in MayRaise
        /\ lastCall.inp[2] \notin {0, -5000, -14500}) =>
        lastCall.out.tag = "ok"

(***************************************************************************)
(* How the loader names a star (SpecCat).                                  *)
(***************************************************************************)
\* every row of the catalogue was kept: star j was loaded from row j
AllRowsKept(i) ==
    /\ catalogue.exists /\ Call(i).outcome = "returned"
    /\ Len(Call(i).stars) = Len(catalogue.rows)

\* the name the row is to be given: the proper name if there is one, else
\* HIP <hip> if there is a Hipparcos id, else HYG <id>
NamedAfter(row, star) ==
    IF Truthy(RowGet(row, "proper")) THEN star.name = RowGet(row, "proper").s
    ELSE IF star.hip_id.some
         THEN star.name = <<"H", "I", "P", " ">> \o IntStr(star.hip_id.v)
         ELSE star.name = <<"H", "Y", "G", " ">> \o FormatTxt(row["id"])

\* C26: a catalogue row with a non-empty proper name is loaded as a star of
\* that name whether or not the row has a Hipparcos id; a row without a
\* proper name is named HIP <hip> when it has a Hipparcos id and HYG <id>
\* otherwise.
C26_NamedByProperName ==
    \A i \in 1..Len(loads) :
        AllRowsKept(i) =>
            \A j \in 1..Len(catalogue.rows) :
                NamedAfter(catalogue.rows[j], Call(i).stars[j])

\* what the code does keep: a row with a non-zero Hipparcos id is named by
\* its proper name, or HIP <hip> without one; every other row is named
\* HYG <id>, proper name or not
NamedByHipFirst ==
    \A i \in 1..Len(loads) :
        AllRowsKept(i) =>
            \A j \in 1..Len(catalogue.rows) :
                \A row \in {catalogue.rows[j]}, star \in {Call(i).stars[j]} :
                    IF star.hip_id.some /\ star.hip_id.v # 0
                    THEN NamedAfter(row, star)
                    ELSE star.name = <<"H", "Y", "G", " ">> \o FormatTxt(row["id"])

(***************************************************************************)
(* The luminous flux of a star in the document and in its file (Spec).     *)
(***************************************************************************)
\* the photometric file the emitter's Photometry refers to
FileOfEmitter(doc, entries, emitter) ==
    {entries[k].data : k \in {n \in 1..Len(entries) :
        \E p, f \in 1..Len(doc) :
            /\ doc[p].kind = "Photometry"
            /\ doc[p].id \in RefsTo(emitter, "photometryId")
            /\ doc[f].kind = "File" /\ doc[f].id \in RefsTo(doc[p], "fileId")
            /\ entries[n].name = "ldc/" \o doc[f].name}}

SameFlux(doc, entries) ==
    \A i \in 1..Len(doc) :
        doc[i].kind = "Emitter" =>
            \A file \in FileOfEmitter(doc, entries, doc[i]) :
                doc[i].RatedLuminousFlux = file.RatedLumens

\* C27: for every visible star of every magnitude, the RatedLuminousFlux of
\* the star's Emitter in product.xml equals the RatedLumens written in the
\* star's photometric file of the same archive.
C27_SameRatedFlux ==
    SkyEmitted =>
        \A entries \in {skyOut.archive} :
            \A doc \in {DocOf(entries)} : SameFlux(doc, entries)

\* what the code does keep: the two agree for the stars no brighter than
\* magnitude -15.7, whose flux stays below the ceiling of the Emitter
SameFluxBelowCeiling ==
    (SkyEmitted /\ \A i \in 1..Len(skyOut.visible) :
                      skyOut.visible[i][1].mag > -15700) =>
        \A entries \in {skyOut.archive} :
            \A doc \in {DocOf(entries)} : SameFlux(doc, entries)

(***************************************************************************)
(* Claims about embed_wasm_viewers (SpecViewers).                          *)
(***************************************************************************)
Viewers == {"starsky", "acadlisp"}

ViewerFolder(viewer) == "other/viewer/" \o viewer \o "/"

ManifestOf(entries, viewer) ==
    {entries[k].data : k \in {n \in 1..Len(entries) :
        entries[n].name = ViewerFolder(viewer) \o "manifest.json"}}

\* every file the manifest names in the given fields is an entry of the
\* viewer's folder
NamedPresent(entries, viewer, fields) ==
    \A manifest \in ManifestOf(entries, viewer) :
        \A field \in fields \cap DOMAIN manifest :
            manifest[field] # "null" =>
                (ViewerFolder(viewer) \o manifest[field]) \in EntryNames(entries)

\* C28: whatever viewer files are present, embed_wasm_viewers returns, and
\* every file named in an embedded manifest (js, wasm, and the xlisp_js and
\* xlisp_wasm fields that are not null) is an entry of that viewer's
\* folder.
C28_ManifestFilesPresent ==
    lastCall.some =>
        \A viewer \in Viewers :
            NamedPresent(lastCall.out, viewer,
                         {"js", "wasm", "xlisp_js", "xlisp_wasm"})

\* what the code does keep: a manifest is embedded only together with the
\* js and wasm files it names
ManifestWithJsAndWasm ==
    lastCall.some =>
        \A viewer \in Viewers :
            NamedPresent(lastCall.out, viewer, {"js", "wasm"})

(***************************************************************************)
(* A generator whose input is missing or incomplete (Spec).                *)
(***************************************************************************)
\* the entries a generator reads from the input archive
Required(fn) ==
    IF fn = "enriched"
    THEN {"geometry/model.l3d", "ldc/photometry.ldt", "image/product.jpg"}
    ELSE {"geometry/model.l3d", "image/product.jpg"}

\* how a call of fn is to end on the input archive
ExpectedOutcome(fn) ==
    IF ~inArchive.exists THEN "FileNotFoundError"
    ELSE IF ~(Required(fn) \subseteq EntryNames(inArchive.entries)) THEN "KeyError"
    ELSE "returned"

\* the step is a generator call that ended with an error
FailedCall ==
    /\ Len(aecOut') = Len(aecOut) + 1
    /\ aecOut'[Len(aecOut')].outcome # "returned"

\* C29: if the input archive is missing or lacks an entry the generator
\* reads, the call ends with an error (FileNotFoundError, KeyError) and
\* leaves the output path as it was: neither created nor truncated.
C29_FailureLeavesOutput ==
    /\ [](\A i \in 1..Len(aecOut) :
             aecOut[i].outcome = ExpectedOutcome(aecOut[i].fn))
    /\ [][FailedCall => outFiles' = outFiles]_vars

\* a call that failed on an incomplete input while an output archive of an
\* earlier run was on disk, and one that failed with no output on disk
C29_Witness ==
    /\ script = "aec" /\ Len(aecOut) = 2
    /\ aecOut[1].outcome = "KeyError" /\ aecOut[2].outcome = "KeyError"
    /\ aecOut[1].fn # aecOut[2].fn
    /\ outFiles[aecOut[1].fn] = OldFile
    /\ outFiles[aecOut[2].fn] = NoFile

(***************************************************************************)
(* The temperature read from the colour index (SpecPhoto).                 *)
(***************************************************************************)
\* the colour indices at or above the one the last call was given
IndicesFrom(a) ==
    {b \in PhotoColors : b.some /\ FloatLE(a, b.v)}

\* the last call was Star.temperature on a star with a colour index
TemperatureOfIndex ==
    /\ Called("temperature")
    /\ lastCall.inp[2].color_index.some
    /\ lastCall.inp[2].color_index.v # NaN

\* C30: the temperature Star.temperature derives from the colour index never
\* rises with the index: for a <= b, temperature(a) >= temperature(b), the
\* boundaries -0.3, 0.0, 0.6 and 1.5 between the ranges included.
C30_TemperatureMonotone ==
    TemperatureOfIndex =>
        \A b \in IndicesFrom(lastCall.inp[2].color_index.v) :
            temperature(PhotoStar(lastCall.inp[2].spectral_type, b))
                <= lastCall.out

\* what the code does keep: the temperature never rises between two indices
\* on the same side of 0.6
MonotoneBesideBoundary ==
    TemperatureOfIndex =>
        \A b \in IndicesFrom(lastCall.inp[2].color_index.v) :
            (lastCall.inp[2].color_index.v < 600) = (b.v < 600) =>
                temperature(PhotoStar(lastCall.inp[2].spectral_type, b))
                    <= lastCall.out

====
